---- MODULE Spec2Model ----
(***************************************************************************)
(* Model of the vault synchronisation engine of echopad                    *)
(* (src-tauri/src/sync): the pull -> rescan -> diff -> push cycle of        *)
(* SyncEngine::sync, the per-file sync state it keeps in SyncStateManager,  *)
(* and the commands that start a cycle.                                     *)
(*                                                                         *)
(* Option<T> values are modelled as sets: {} is None, {v} is Some(v).       *)
(* One step of the model is one synchronous stretch of a handler between    *)
(* two HTTP requests; the download and the write of one remote change are   *)
(* taken as one step. In Spec the environment (the note editor, the other   *)
(* devices) acts between the cycles of the vault.                           *)
(***************************************************************************)
EXTENDS Integers, Sequences, FiniteSets, TLC

VARIABLES
    disk,           \* vault directory: path -> content, or Absent
    conflictFiles,  \* files named with the .sync-conflict- infix: [original, content]
    fstate,         \* SyncStateManager.file_states of the vault: path -> Option<FileSyncState>
    vault,          \* SyncStateManager.vaults entry of the vault
    srvLog,         \* the server's change feed of the vault (changes of other devices)
    eng,            \* per task: the locals of the running command and of its SyncEngine::sync
    nStarted,       \* cycles started so far
    nEnv,           \* changes made by the environment (note editor, other devices) so far
    fsStreak,       \* completed fault-free cycles in a row with no outside filesystem change
    remStreak,      \* completed cycles in a row with no change of the remote feed
    store,          \* SyncStateManager: vaults, file_states, path_to_vault_id, dirty
    state_file,     \* sync_state.json: Option<PersistedState>
    saver,          \* per caller of the store: idle, or inside save_sync with its snapshot
    lastSave,       \* how the store call that returned last ended
    nOps,           \* store calls so far
    call,           \* one call of a function of the program: its argument and its result
    queue,          \* SyncQueue: the upload queue and the download queue
    clock,          \* the system time, in units of the retry delay
    nQueueOps,      \* queue items created and queue calls so far
    debouncer,      \* ChangeDebouncer: the pending list, and what was added and taken
    manifest,       \* .lazuli-sync.json of the vault directory: Option<VaultSyncManifest>
    cmd             \* the sync_disable_vault command: where it stands, what it found

engineVars == <<disk, conflictFiles, fstate, vault, srvLog, eng, nStarted, nEnv, fsStreak, remStreak>>

storeVars == <<store, state_file, saver, lastSave, nOps>>

queueVars == <<queue, clock, nQueueOps>>

cmdVars == <<manifest, cmd>>

auxVars == <<queueVars, debouncer, cmdVars>>

vars == <<disk, conflictFiles, fstate, vault, srvLog, eng, nStarted, nEnv, fsStreak, remStreak,
          store, state_file, saver, lastSave, nOps, call, queue, clock, nQueueOps,
          debouncer, manifest, cmd>>

---------------------------------------------------------------------------
(* Bounds of the model *)

MaxEnv == 2
MaxCycles == 2
PageSize == 1
MaxVer == 2
MaxStoreOps == 3
MaxEdits == 1

(* Program constants *)

PullLimit == 100

---------------------------------------------------------------------------
(* Universe *)

Tasks == {1, 2}

Paths == {"a.md", "x.bin"}

Absent == "absent"

Contents == {"c1", "c2"}

Extension(p) == CASE p = "a.md" -> "md" [] p = "x.bin" -> "bin"

SYNC_EXTENSIONS ==
    {"md", "markdown", "txt", "png", "jpg", "jpeg", "gif", "webp", "svg", "pdf",
     "json", "yaml", "yml", "toml"}

\* Self::now(): the model has one instant
Now == "now"

None == {}

Some(v) == {v}

Unwrap(o) == CHOOSE v \in o : TRUE

Min(a, b) == IF a < b THEN a ELSE b

\* `x as u32` of a signed integer: two's complement wrap-around. The model's
\* words are 16 bits wide (versions stay far below 2^15).
WordModulus == 2^16

AsU32(v) == IF v < 0 THEN v + WordModulus ELSE v

\* BLAKE3 of a file content, as a hex string: injective on the model's contents
compute_hash(c) == CASE c = "c1" -> "h1" [] c = "c2" -> "h2"

\* Strings and byte strings are sequences of tokens. Str(p) is the text of the
\* path p (a text with a character outside the base64 alphabet, such as the
\* dot of the extension); <<"base64">> \o b is the base64 text of the byte
\* string b, itself a text; NotUtf8 is a byte string that is no UTF-8 text.
Str(p) == <<p>>

NotUtf8 == <<"\\xff">>

\* BASE64.encode(bytes)
Base64Encode(b) == <<"base64">> \o b

\* BASE64.decode(text): Ok(bytes) for a base64 text, Err otherwise
Base64Decode(x) == IF Len(x) >= 2 /\ x[1] = "base64" THEN Some(Tail(x)) ELSE None

\* String::from_utf8(bytes).is_ok()
IsUtf8(b) == b # NotUtf8

\* encode_path, lines 616-618
encode_path(path) == Base64Encode(path)

\* Variant: the string is returned as it is
decode_path_plain(encoded) == encoded

\* decode_path, lines 621-630: base64 decode, then UTF-8; the string itself
\* when either fails
decode_path(encoded) ==
    IF Base64Decode(encoded) # None /\ IsUtf8(Unwrap(Base64Decode(encoded)))
    THEN Unwrap(Base64Decode(encoded))
    ELSE encoded

\* The path a text names
PathOf(text) == text[1]

---------------------------------------------------------------------------
(* Scanner *)

\* scan_directory's filter: the extension is one of SYNC_EXTENSIONS
IsSyncable(p) == Extension(p) \in SYNC_EXTENSIONS

\* scan_vault: relative path -> content hash of every syncable file on disk
scan_vault(d) ==
    [p \in {q \in Paths : IsSyncable(q) /\ d[q] # Absent} |-> compute_hash(d[p])]

\* Variant: a path the previous map holds is never reported as changed
detect_changes_by_path(current, previous) ==
    [changed |-> {p \in DOMAIN current : p \notin DOMAIN previous},
     deleted |-> {p \in DOMAIN previous : p \notin DOMAIN current}]

\* detect_changes(current, previous), scanner.rs lines 163-191
detect_changes(current, previous) ==
    [changed |-> {p \in DOMAIN current :
                    ~(p \in DOMAIN previous /\ previous[p] = current[p])},
     deleted |-> {p \in DOMAIN previous : p \notin DOMAIN current}]

---------------------------------------------------------------------------
(* SyncStateManager: file states *)

FileSyncState(h, v) ==
    [local_hash |-> Some(h), remote_hash |-> Some(h), remote_version |-> Some(v)]

\* Variant: the remote hash is left unset
mark_synced_local_only(fs, p, hash, version) ==
    [fs EXCEPT ![p] = Some([FileSyncState(hash, version) EXCEPT !.remote_hash = None])]

\* mark_synced_by_id: both hashes are set to `hash`
mark_synced_by_id(fs, p, hash, version) ==
    [fs EXCEPT ![p] = Some(FileSyncState(hash, version))]

\* Variant: the state is kept
remove_file_state_never(fs, p) == fs

remove_file_state_by_id(fs, p) == [fs EXCEPT ![p] = None]

\* Variant: no version is ever sent
base_version_unset(fs, p) == None

\* get_file_state_by_id(..).and_then(|fs| fs.remote_version)
base_version(fs, p) == IF fs[p] = None THEN None ELSE Unwrap(fs[p]).remote_version

\* get_local_changes: the previous map holds the paths whose state has a local_hash
previous_hashes(fs) ==
    [p \in {q \in Paths : fs[q] # None /\ Unwrap(fs[q]).local_hash # None}
        |-> Unwrap(Unwrap(fs[p]).local_hash)]

get_local_changes(fs, scan) == detect_changes(scan, previous_hashes(fs))

---------------------------------------------------------------------------
(* The server, as the engine sees it *)

\* An entry of the feed: another device created, updated or deleted a file
\* ("rename" stands for an op this client does not know)
FeedChange(p, op, c, v) == [path |-> p, op |-> op, content |-> c, version |-> v]

FeedChanges ==
    {FeedChange("a.md", "update", "c1", 1), FeedChange("a.md", "update", "c2", 2),
     FeedChange("a.md", "delete", "c1", 2), FeedChange("a.md", "rename", "c1", 2),
     FeedChange("x.bin", "create", "c1", 1), FeedChange("a.md", "update", "c1", -1)}

\* How the server serves one change of a page: with or without a presigned
\* download URL, and with the bytes the URL yields (the content, or other bytes)
Servings ==
    [url : BOOLEAN, corrupt : {FALSE}] \cup {[url |-> TRUE, corrupt |-> TRUE]}

OtherContent(c) == CHOOSE o \in Contents : o # c

\* engine.rs RemoteChange, as the pull response carries a feed entry
RemoteChange(f, serving) ==
    [encrypted_path |-> encode_path(Str(f.path)), operation |-> f.op,
     content_hash |-> compute_hash(f.content), version |-> f.version,
     download_url |-> IF serving.url /\ f.op # "delete" THEN Some("/dl") ELSE None,
     bytes |-> IF serving.corrupt THEN OtherContent(f.content) ELSE f.content]

\* POST /sync/pull {cursor, limit}: the page of the feed that follows the cursor
PageStart(cursor) == IF cursor = None THEN 0 ELSE Unwrap(cursor)

PageLen(log, cursor, limit) ==
    Min(Len(log) - PageStart(cursor), Min(limit, PageSize))

PullResponse(log, cursor, limit, servings) ==
    LET from == PageStart(cursor)
        upto == from + PageLen(log, cursor, limit)
    IN  [changes |-> [i \in 1..(upto - from) |-> RemoteChange(log[from + i], servings[i])],
         next_cursor |-> upto,
         has_more |-> upto < Len(log)]

\* What the server may answer to one entry of a push batch
PushResultsFor(entry) ==
    LET nv == IF entry.base_version = None THEN 1 ELSE Unwrap(entry.base_version) + 1
        rejected == [encrypted_path |-> entry.encrypted_path, status |-> "conflict",
                     upload_url |-> None, new_version |-> None, file_id |-> None]
        accepted == [rejected EXCEPT !.status = "accepted"]
    IN  {rejected} \cup
        IF entry.operation = "delete" THEN {accepted}
        ELSE IF nv > MaxVer THEN {}
        ELSE {[accepted EXCEPT !.upload_url = Some("/ul"), !.new_version = v, !.file_id = f] :
                 v \in {None, Some(nv)}, f \in {None, Some("f1")}}

PushResponses(batch) ==
    {r \in [1..Len(batch) -> UNION {PushResultsFor(batch[i]) : i \in 1..Len(batch)}] :
        \A i \in 1..Len(batch) : r[i] \in PushResultsFor(batch[i])}

---------------------------------------------------------------------------
(* SyncEngine *)

IdleTask ==
    [pc |-> "idle", additive |-> FALSE,
     cursor |-> None, page |-> <<>>, has_more |-> FALSE, next_cursor |-> 0,
     downloaded |-> 0, errors |-> <<>>,
     changed |-> {}, deleted |-> {}, batch |-> <<>>, results |-> <<>>,
     uploaded |-> 0, files_deleted |-> 0, result |-> None,
     last |-> "",            \* outcome of the change applied by the last step
     \* history of the cycle, read by the properties only
     startEmpty |-> FALSE, written |-> 0, skipped |-> 0, failed |-> 0,
     uploadFailed |-> 0, fault |-> FALSE, overlap |-> FALSE, pushSent |-> FALSE,
     pullFailed |-> FALSE, pushFailed |-> FALSE, authFailed |-> FALSE,
     applied |-> {},         \* paths a remote change of this pull wrote or deleted
     kept |-> {},            \* paths this additive pull kept although the remote differs
     put |-> "",             \* how the PUT of the last push result ended
     confirmSent |-> FALSE]  \* the last push result was followed by a confirm request

InFlight(t) == t.pc \notin {"idle"}

Failed(why) == [ok |-> FALSE, kind |-> why]

\* Variant: deletes are applied whatever the mode
SkipsDeleteNever(additive) == FALSE

\* apply_remote_change, line 309: a delete is skipped in additive-only mode
SkipsDelete(additive) == additive

\* apply_remote_change, line 324: a create/update is skipped in additive-only
\* mode when the file exists locally
SkipsExisting(additive, d, p) == additive /\ d[p] # Absent

\* Variant: the downloaded bytes are not verified
HashNotVerified(bytes, change) == TRUE

\* apply_remote_change, lines 373-378: the downloaded bytes hash to content_hash
HashVerified(bytes, change) == compute_hash(bytes) = change.content_hash

\* apply_remote_change: the outcome of one remote change on the files and the
\* file states. netOk: the GET of the download URL succeeds.
apply_remote_change(additive, d, fs, change, netOk) ==
    LET p == PathOf(decode_path(change.encrypted_path)) IN
    CASE change.operation = "delete" ->
            IF SkipsDelete(additive)
            THEN [ok |-> TRUE, disk |-> d, fstate |-> fs, kind |-> "skipped"]
            ELSE [ok |-> TRUE, disk |-> [d EXCEPT ![p] = Absent],
                  fstate |-> remove_file_state_by_id(fs, p), kind |-> "deleted"]
      [] change.operation \in {"create", "update"} ->
            IF SkipsExisting(additive, d, p)
            THEN [ok |-> TRUE, disk |-> d,
                  fstate |-> mark_synced_by_id(fs, p, compute_hash(d[p]),
                                               AsU32(change.version)),
                  kind |-> "skipped"]
            ELSE IF change.download_url = None THEN Failed("no download URL")
            ELSE IF ~netOk THEN Failed("download failed")
            ELSE IF ~HashVerified(change.bytes, change) THEN Failed("hash mismatch")
            ELSE [ok |-> TRUE, disk |-> [d EXCEPT ![p] = change.bytes],
                  fstate |-> mark_synced_by_id(fs, p, compute_hash(change.bytes),
                                               AsU32(change.version)),
                  kind |-> "written"]
      [] OTHER -> Failed("unknown operation")

\* A set as a sequence, in some fixed order (iteration order of a HashMap / Vec)
RECURSIVE SetToSeq(_)
SetToSeq(S) ==
    IF S = {} THEN <<>>
    ELSE LET x == CHOOSE y \in S : TRUE IN <<x>> \o SetToSeq(S \ {x})

\* push_changes_incremental, lines 440-477: the batch, changed files first
ChangedEntry(fs, scan, p) ==
    [encrypted_path |-> encode_path(Str(p)),
     operation |-> IF base_version(fs, p) # None THEN "update" ELSE "create",
     content_hash |-> scan[p],
     base_version |-> base_version(fs, p)]

DeletedEntry(fs, p) ==
    [encrypted_path |-> encode_path(Str(p)), operation |-> "delete",
     content_hash |-> "", base_version |-> base_version(fs, p)]

RECURSIVE MapSeq(_, _, _, _)
MapSeq(s, fs, scan, del) ==
    IF s = <<>> THEN <<>>
    ELSE <<IF del THEN DeletedEntry(fs, Head(s)) ELSE ChangedEntry(fs, scan, Head(s))>>
         \o MapSeq(Tail(s), fs, scan, del)

BuildBatch(fs, scan, cs) ==
    MapSeq(SetToSeq(cs.changed), fs, scan, FALSE) \o MapSeq(SetToSeq(cs.deleted), fs, scan, TRUE)

\* sync, lines 189-201: the SyncOperationResult
SyncOperationResult(t) ==
    [success |-> t.errors = <<>>,
     files_uploaded |-> t.uploaded,
     files_downloaded |-> t.downloaded,
     files_deleted |-> t.files_deleted,
     errors |-> t.errors]

\* The cycle returns Ok(result)
Finished(t) == [t EXCEPT !.pc = "done", !.result = Some(SyncOperationResult(t))]

\* How a request fails: no answer, or an answer whose status is not a success
\* (pull_changes lines 250-259, push_changes_incremental lines 499-508)
RequestFailures == {"network", "401", "500"}

\* Variant: the error of the pull ends the cycle
AfterPullErrorEndsCycle(t) == Finished([t EXCEPT !.errors = Append(@, "Pull failed")])

\* sync, lines 151-154: Err of pull_changes is recorded, the cycle goes on
AfterPullError(t) == [t EXCEPT !.errors = Append(@, "Pull failed"), !.pc = "rescan"]

\* sync, lines 183-186: Err of push_changes_incremental is recorded; the result
\* follows
AfterPushError(t) == Finished([t EXCEPT !.errors = Append(@, "Push failed")])

---------------------------------------------------------------------------
(* Bookkeeping of the properties: which cycles ran undisturbed *)

Clean(t) == ~t.fault /\ ~t.overlap

FsStreakAfter(t) ==
    CASE t.pc = "done" -> IF Clean(t) THEN Min(fsStreak + 1, 2) ELSE 0
      [] t.pc = "failed" -> 0
      [] OTHER -> fsStreak

RemStreakAfter(t) ==
    CASE t.pc = "done" -> IF Clean(t) THEN Min(remStreak + 1, 2) ELSE 0
      [] t.pc = "failed" -> 0
      [] OTHER -> remStreak

\* Task e moves to t; the streaks follow
Step(e, t) ==
    /\ eng' = [eng EXCEPT ![e] = t]
    /\ fsStreak' = FsStreakAfter(t)
    /\ remStreak' = RemStreakAfter(t)

---------------------------------------------------------------------------
(* SyncStateManager: vaults, path mapping, persistence *)

VaultIds == {"v1", "v2"}

VaultPaths == {"/p", "/q"}

\* HashMap operations; a map is a function on its keys
EmptyMap == <<>>

Get(f, k) == IF k \in DOMAIN f THEN Some(f[k]) ELSE None

Insert(f, k, v) == [x \in DOMAIN f \cup {k} |-> IF x = k THEN v ELSE f[x]]

Remove(f, k) == [x \in DOMAIN f \ {k} |-> f[x]]

\* state.rs VaultState (the fields the model follows)
VaultState(id, path, enabled) == [vault_id |-> id, vault_path |-> path, enabled |-> enabled]

STATE_VERSION == 2

\* The three persisted maps of a store
Maps(st) ==
    [vaults |-> st.vaults, file_states |-> st.file_states,
     path_to_vault_id |-> st.path_to_vault_id]

EmptyMaps == [vaults |-> EmptyMap, file_states |-> EmptyMap, path_to_vault_id |-> EmptyMap]

\* Variant: the vault-key cache is serialised with the maps
PersistedStateWithKeys(m) ==
    [version |-> STATE_VERSION, vaults |-> m.vaults, file_states |-> m.file_states,
     path_to_vault_id |-> m.path_to_vault_id, vault_keys |-> m.vault_keys]

\* save_sync, lines 633-638: the PersistedState it serialises
PersistedState(m) ==
    [version |-> STATE_VERSION, vaults |-> m.vaults, file_states |-> m.file_states,
     path_to_vault_id |-> m.path_to_vault_id]

\* Keys of the vault-key cache
VaultKeys == {"k1"}

IdleSaver == [pc |-> "idle", snapshot |-> None]

\* SyncStateManager::new on a machine with no state file
StoreInit ==
    /\ store = [vaults |-> EmptyMap, file_states |-> EmptyMap,
                path_to_vault_id |-> EmptyMap, vault_keys |-> EmptyMap, dirty |-> FALSE]
    /\ state_file = None
    /\ saver = [t \in Tasks |-> IdleSaver]
    /\ lastSave = "none"
    /\ nOps = 0

\* A mutating method of caller t: the maps change, then mark_dirty sets the
\* flag and enters save_sync, which clones the maps (lines 530-538, 633-638).
\* The write of the file is a later step of the caller: nothing serialises
\* the save_sync calls of two callers.
Mutate(t, m) ==
    /\ saver[t].pc = "idle"
    /\ nOps < MaxStoreOps
    /\ nOps' = nOps + 1
    /\ store' = [vaults |-> m.vaults, file_states |-> m.file_states,
                 path_to_vault_id |-> m.path_to_vault_id,
                 vault_keys |-> store.vault_keys, dirty |-> TRUE]
    /\ saver' = [saver EXCEPT ![t] = [pc |-> "write",
                                      snapshot |-> Some(PersistedState(store'))]]
    /\ UNCHANGED <<state_file, lastSave>>
    /\ UNCHANGED <<engineVars, call, auxVars>>

\* save_sync, lines 640-652: create_dir_all, to_string_pretty and fs::write;
\* on Ok the dirty flag is cleared, on Err nothing changes (mark_dirty logs it)
save_sync(t) ==
    /\ saver[t].pc = "write"
    /\ \E ok \in BOOLEAN :
        /\ state_file' = IF ok THEN saver[t].snapshot ELSE state_file
        /\ store' = IF ok THEN [store EXCEPT !.dirty = FALSE] ELSE store
        /\ lastSave' = IF ok THEN "saved" ELSE "failed"
    /\ saver' = [saver EXCEPT ![t] = IdleSaver]
    /\ UNCHANGED nOps
    /\ UNCHANGED <<engineVars, call, auxVars>>

\* enable_vault, lines 208-221: the maps it leaves
EnabledVault(m, path, id) ==
    [m EXCEPT
        !.vaults = Insert(@, id,
            IF id \in DOMAIN @ THEN [@[id] EXCEPT !.vault_path = path, !.enabled = TRUE]
            ELSE VaultState(id, path, TRUE)),
        !.path_to_vault_id = Insert(@, path, id)]

\* enable_vault, lines 208-223
enable_vault(t, path, id) == Mutate(t, EnabledVault(Maps(store), path, id))

\* set_vault_state, lines 194-200
set_vault_state(t, state) ==
    Mutate(t, [Maps(store) EXCEPT
        !.path_to_vault_id = Insert(@, state.vault_path, state.vault_id),
        !.vaults = Insert(@, state.vault_id, state)])

\* update_vault_path, lines 153-176
update_vault_path(t, id, new_path) ==
    LET old_path == IF id \in DOMAIN store.vaults THEN Some(store.vaults[id].vault_path)
                    ELSE None
        unmapped == IF old_path # None THEN Remove(store.path_to_vault_id, Unwrap(old_path))
                    ELSE store.path_to_vault_id
    IN  Mutate(t, [Maps(store) EXCEPT
            !.vaults = IF id \in DOMAIN @ THEN [@ EXCEPT ![id].vault_path = new_path] ELSE @,
            !.path_to_vault_id = Insert(unmapped, new_path, id)])

\* disable_vault_by_id, lines 235-244
DisabledById(m, id) ==
    [m EXCEPT !.vaults = IF id \in DOMAIN @ THEN [@ EXCEPT ![id].enabled = FALSE] ELSE @]

\* disable_vault, lines 226-232: returns at once when the path is not mapped
disable_vault(t, path) ==
    /\ path \in DOMAIN store.path_to_vault_id
    /\ Mutate(t, DisabledById(Maps(store), store.path_to_vault_id[path]))

\* remove_vault_by_id, lines 705-716
RemovedById(m, id) ==
    LET vault_path == IF id \in DOMAIN m.vaults THEN Some(m.vaults[id].vault_path) ELSE None
    IN  [m EXCEPT !.vaults = Remove(@, id),
                  !.file_states = Remove(@, id),
                  !.path_to_vault_id =
                      IF vault_path # None THEN Remove(@, Unwrap(vault_path)) ELSE @]

remove_vault_by_id(t, id) == Mutate(t, RemovedById(Maps(store), id))

\* remove_vault, lines 695-702 (its last mark_dirty; the save inside
\* remove_vault_by_id writes a state the last one writes again)
remove_vault(t, path) ==
    LET m == IF path \in DOMAIN store.path_to_vault_id
             THEN RemovedById(Maps(store), store.path_to_vault_id[path])
             ELSE Maps(store)
    IN  Mutate(t, [m EXCEPT !.path_to_vault_id = Remove(@, path)])

\* set_file_state_by_id, lines 362-371 (mark_synced_by_id goes through it)
set_file_state_by_id(t, id, relative_path, state) ==
    Mutate(t, [Maps(store) EXCEPT
        !.file_states = Insert(@, id,
            Insert(IF id \in DOMAIN @ THEN @[id] ELSE EmptyMap, relative_path, state))])

\* set_vault_key, lines 458-460: the cache changes, nothing is saved
set_vault_key(t, id, key) ==
    /\ saver[t].pc = "idle"
    /\ nOps < MaxStoreOps
    /\ nOps' = nOps + 1
    /\ store' = [store EXCEPT !.vault_keys = Insert(@, id, key)]
    /\ lastSave' = "none"
    /\ UNCHANGED <<state_file, saver>>
    /\ UNCHANGED <<engineVars, call, auxVars>>

\* clear_vault_keys, lines 468-470
clear_vault_keys(st) == [st EXCEPT !.vault_keys = EmptyMap]

\* clear, lines 666-676: the maps and the key cache are emptied
Cleared(st) ==
    [st EXCEPT !.vaults = EmptyMap, !.file_states = EmptyMap,
               !.path_to_vault_id = EmptyMap, !.vault_keys = EmptyMap]

\* sync_logout, commands.rs lines 275-277: clear (the maps are emptied and
\* the file removed; no save), then clear_vault_keys
clear(t) ==
    /\ saver[t].pc = "idle"
    /\ nOps < MaxStoreOps
    /\ nOps' = nOps + 1
    /\ store' = clear_vault_keys(Cleared(store))
    /\ state_file' = None
    /\ lastSave' = "cleared"
    /\ UNCHANGED saver
    /\ UNCHANGED <<engineVars, call, auxVars>>

\* No function is being called; a call of fn on arg that has not returned
NoCall == [fn |-> "none", arg |-> <<>>, ret |-> None]

Call(fn, arg) == [fn |-> fn, arg |-> arg, ret |-> None]

\* compute_simple_hash of the old key, in the synthesised id
MigratedId(old_key) == CASE old_key = "/p" -> "migrated_p" [] old_key = "/q" -> "migrated_q"

\* migrate_from_v1, lines 580-605: the loop over old_state.vaults, in the
\* order the HashMap yields its keys
RECURSIVE MigrateVaults(_, _, _)
MigrateVaults(old, order, acc) ==
    IF order = <<>> THEN acc
    ELSE LET old_key == Head(order)
             vault_state == old.vaults[old_key]
             vault_id == IF vault_state.vault_id = "" THEN MigratedId(old_key)
                         ELSE vault_state.vault_id
         IN  MigrateVaults(old, Tail(order),
                [vaults |-> Insert(acc.vaults, vault_id,
                                   [vault_state EXCEPT !.vault_id = vault_id,
                                                       !.vault_path = old_key]),
                 path_to_vault_id |-> Insert(acc.path_to_vault_id, old_key, vault_id),
                 file_states |-> IF old_key \in DOMAIN old.file_states
                                 THEN Insert(acc.file_states, vault_id, old.file_states[old_key])
                                 ELSE acc.file_states])

\* migrate_from_v1, lines 608-615: a group whose key is not in the path
\* mapping is stored under the id the path mapping has for that key
RECURSIVE AdoptOrphans(_, _, _)
AdoptOrphans(old, keys, acc) ==
    IF keys = {} THEN acc
    ELSE LET old_key == CHOOSE k \in keys : TRUE
             target == IF old_key \notin DOMAIN acc.path_to_vault_id
                       THEN Get(acc.path_to_vault_id, old_key) ELSE None
         IN  AdoptOrphans(old, keys \ {old_key},
                IF target # None
                THEN [acc EXCEPT !.file_states =
                          Insert(@, Unwrap(target), old.file_states[old_key])]
                ELSE acc)

\* migrate_from_v1, lines 575-629
migrate_from_v1(old_state, order) ==
    AdoptOrphans(old_state, DOMAIN old_state.file_states,
                 MigrateVaults(old_state, order, EmptyMaps))

\* load_sync, lines 539-572; order: the iteration order of a migration
load_sync(file, order) ==
    IF file = None THEN EmptyMaps
    ELSE IF Unwrap(file).version < STATE_VERSION THEN migrate_from_v1(Unwrap(file), order)
    ELSE Maps(Unwrap(file))

\* get_vault_state, lines 187-191
get_vault_state(m, vault_path) ==
    LET id == Get(m.path_to_vault_id, vault_path)
    IN  IF id = None THEN None ELSE Get(m.vaults, Unwrap(id))

\* types.rs VaultSyncManifest, the content of .lazuli-sync.json
VaultSyncManifest(remote_vault_id, server_url, user_id, connected_at) ==
    [remote_vault_id |-> remote_vault_id, server_url |-> server_url,
     user_id |-> user_id, connected_at |-> connected_at]

\* sync_auto_reconnect_vault, commands.rs lines 619-666, on the maps of the
\* store, the manifest read from the vault directory (None: no file, or one
\* that does not parse) and the session of the AuthManager (None: logged out)
sync_auto_reconnect_vault(m, read, session, vault_path, now) ==
    LET same == [ret |-> "Ok(false)", maps |-> m, manifest |-> read] IN
    IF session = None THEN [same EXCEPT !.ret = "Err"]
    ELSE IF read = None THEN same
    ELSE LET mf == Unwrap(read)
             current == Unwrap(session)
             vault_state == get_vault_state(m, vault_path)
         IN  IF current.user_id # mf.user_id THEN same
             ELSE IF /\ vault_state # None
                     /\ Unwrap(vault_state).enabled
                     /\ Unwrap(vault_state).vault_id = mf.remote_vault_id
             THEN [same EXCEPT !.ret = "Ok(true)"]
             ELSE [ret |-> "Ok(true)",
                   maps |-> EnabledVault(m, vault_path, mf.remote_vault_id),
                   manifest |->
                      IF current.server_url # mf.server_url
                      THEN Some(VaultSyncManifest(mf.remote_vault_id, current.server_url,
                                                  current.user_id, now))
                      ELSE read]

\* get_all_file_states_by_id, lines 399-404, as the engine reads them
AsFileStates(m, id) ==
    [p \in Paths |-> IF id \in DOMAIN m.file_states THEN Get(m.file_states[id], p) ELSE None]

\* count_pending_changes, lines 477-523, for a vault directory that can be read
count_pending_changes(m, d, vault_path) ==
    LET id == Get(m.path_to_vault_id, vault_path)
        vault_state == IF id = None THEN None ELSE Get(m.vaults, Unwrap(id))
    IN  IF vault_state = None \/ ~Unwrap(vault_state).enabled THEN 0
        ELSE LET scan == scan_vault(d)
                 stored_states == Get(m.file_states, Unwrap(vault_state).vault_id)
                 needs_sync(rel_path) ==
                     IF stored_states = None THEN TRUE
                     ELSE IF rel_path \notin DOMAIN Unwrap(stored_states) THEN TRUE
                     ELSE Unwrap(stored_states)[rel_path].local_hash # Some(scan[rel_path])
             IN  Cardinality({rel_path \in DOMAIN scan : needs_sync(rel_path)})
                 + IF stored_states = None THEN 0
                   ELSE Cardinality({rel_path \in DOMAIN Unwrap(stored_states) :
                                        rel_path \notin DOMAIN scan})

---------------------------------------------------------------------------
(* ConflictManager, conflict.rs. A file name is a sequence of tokens: the
   dot, and texts without a dot. *)

\* const CONFLICT_SUFFIX: &str = ".sync-conflict-"
CONFLICT_SUFFIX == <<".", "sync-conflict-">>

\* The position of the last dot of a name, 0 when it has none
LastDot(name) ==
    IF \E k \in 1..Len(name) : name[k] = "."
    THEN CHOOSE k \in 1..Len(name) :
            name[k] = "." /\ \A j \in (k + 1)..Len(name) : name[j] # "."
    ELSE 0

\* Path::file_stem: the name up to its last dot; the whole name when it has
\* no dot but a leading one
file_stem(name) == IF LastDot(name) > 1 THEN SubSeq(name, 1, LastDot(name) - 1) ELSE name

\* Path::extension: what follows the last dot, if the name has one beyond a
\* leading dot
extension(name) ==
    IF LastDot(name) > 1 THEN Some(SubSeq(name, LastDot(name) + 1, Len(name))) ELSE None

\* .map(|e| format!(".{}", e)).unwrap_or_default()
DotExtension(name) ==
    IF extension(name) = None THEN <<>> ELSE <<".">> \o Unwrap(extension(name))

\* str::find: the first position of pat in name, 0 when there is none
Find(name, pat) ==
    LET at == {k \in 1..Len(name) : /\ k + Len(pat) - 1 <= Len(name)
                                    /\ SubSeq(name, k, k + Len(pat) - 1) = pat}
    IN  IF at = {} THEN 0 ELSE CHOOSE k \in at : \A j \in at : k <= j

\* generate_conflict_path, lines 26-58; device.short: the first 8 characters
\* of the device id
generate_conflict_path(path, device, timestamp) ==
    [path EXCEPT !.name = file_stem(@) \o CONFLICT_SUFFIX \o device.short
                          \o <<timestamp>> \o DotExtension(@)]

\* is_conflict_file, lines 61-65
is_conflict_file(path) == Find(path.name, CONFLICT_SUFFIX) > 0

\* get_original_path, lines 68-84
get_original_path(conflict_path) ==
    LET name == conflict_path.name
        idx == Find(name, CONFLICT_SUFFIX)
    IN  IF idx > 0
        THEN Some([conflict_path EXCEPT !.name = SubSeq(name, 1, idx - 1) \o DotExtension(name)])
        ELSE None

\* fs::copy(from, to) on the files of a directory; copying a file onto itself
\* truncates it
Truncated == "empty"

Copied(files, from, to) ==
    IF from = to THEN [files EXCEPT ![to] = Truncated] ELSE Insert(files, to, files[from])

\* resolve_conflict, lines 233-248: the name KeepBoth renames the conflict
\* file to
CopyPath(original_path, timestamp) ==
    [original_path EXCEPT !.name = file_stem(@) \o <<" (copy ", timestamp, ")">>
                                   \o DotExtension(@)]

\* resolve_conflict, lines 204-256, on the files of the vault directory: the
\* result and the files it leaves
resolve_conflict(files, conflict_path, keep, timestamp) ==
    IF conflict_path \notin DOMAIN files
    THEN [result |-> "FileNotFound", files |-> files]
    ELSE IF get_original_path(conflict_path) = None
    THEN [result |-> "InvalidState", files |-> files]
    ELSE LET original_path == Unwrap(get_original_path(conflict_path))
         IN  [result |-> "Ok",
              files |->
                CASE keep = "KeepLocal" -> Remove(files, conflict_path)
                  [] keep = "KeepRemote" ->
                        Remove(Copied(files, conflict_path, original_path), conflict_path)
                  [] keep = "KeepBoth" ->
                        Insert(Remove(files, conflict_path),
                               CopyPath(original_path, timestamp), files[conflict_path])]

---------------------------------------------------------------------------
(* SyncQueue, queue.rs *)

\* SyncQueue::with_config(max_retries, retry_delay_ms); the clock counts
\* milliseconds
max_retries == 2

retry_delay_ms == 1

MaxClock == 3

MaxQueueOps == 4

\* (vault_path, relative_path) of the queued files
QueueFiles == {<<"/p", "a.md">>, <<"/p", "x.bin">>}

\* Priority::Normal, Priority::High
Priorities == {1, 2}

\* QueueItem::new_upload(..).with_priority(..), lines 315-367
QueueItem(id, file, priority) ==
    [id |-> id, vault_path |-> file[1], relative_path |-> file[2],
     attempts |-> 0, last_attempt_at |-> None, last_error |-> None, priority |-> priority]

\* SyncQueue::new, lines 72-80
QueueInit ==
    /\ queue = [upload |-> <<>>, download |-> <<>>]
    /\ clock = 0
    /\ nQueueOps = 0

\* Variant: the item is inserted at the back
BackPosition(q, item) == Len(q) + 1

\* enqueue, lines 103-105: before the first item of lower priority
InsertPosition(q, item) ==
    IF \E k \in 1..Len(q) : q[k].priority < item.priority
    THEN CHOOSE k \in 1..Len(q) :
            /\ q[k].priority < item.priority
            /\ \A j \in 1..(k - 1) : ~(q[j].priority < item.priority)
    ELSE Len(q) + 1

\* Variant: the entries of the same file stay in the queue
KeepAll(q, item) == q

\* enqueue, lines 98-100: retain the entries of the other files
WithoutFile(q, item) ==
    SelectSeq(q, LAMBDA i : ~(i.vault_path = item.vault_path
                              /\ i.relative_path = item.relative_path))

\* enqueue_upload / enqueue_download, lines 94-121, on one queue
Enqueued(q, item) ==
    LET kept == WithoutFile(q, item)
        pos == InsertPosition(kept, item)
    IN  SubSeq(kept, 1, pos - 1) \o <<item>> \o SubSeq(kept, pos, Len(kept))

\* calculate_backoff, lines 159-161
calculate_backoff(attempts) == retry_delay_ms * 2 ^ Min(attempts, 10)

\* is_ready, lines 145-156
is_ready(item, now) ==
    IF item.attempts >= max_retries THEN FALSE
    ELSE IF item.last_attempt_at # None
         THEN now >= Unwrap(item.last_attempt_at) + calculate_backoff(item.attempts)
         ELSE TRUE

\* next_upload / next_download, lines 124-141: the first ready item
NextReady(q, now) ==
    IF \E k \in 1..Len(q) : is_ready(q[k], now)
    THEN Some(q[CHOOSE k \in 1..Len(q) :
                    /\ is_ready(q[k], now)
                    /\ \A j \in 1..(k - 1) : ~is_ready(q[j], now)])
    ELSE None

\* complete_upload / remove_upload, lines 164-171 and 194-201
WithoutId(q, id) == SelectSeq(q, LAMBDA i : i.id # id)

\* Variant: the item returned is taken out of the queue
LeftByNextPopped(q, item) == IF item = None THEN q ELSE WithoutId(q, Unwrap(item).id)

\* next_upload / next_download, lines 123-141: the item is cloned under the
\* read lock; the queue is left as it is
LeftByNext(q, item) == q

\* fail_upload / fail_download, lines 174-191: the first item with the id
Failed_(q, id, error, now) ==
    IF \E k \in 1..Len(q) : q[k].id = id
    THEN LET k == CHOOSE j \in 1..Len(q) :
                    q[j].id = id /\ \A h \in 1..(j - 1) : q[h].id # id
         IN  [q EXCEPT ![k] = [@ EXCEPT !.attempts = @ + 1,
                                        !.last_attempt_at = Some(now),
                                        !.last_error = Some(error)]]
    ELSE q

\* Variant: every item counts as exhausted
NeedsRetryAlways(item) == TRUE

\* retry_failed, line 268: the item exceeded its retries
NeedsRetry(item) == item.attempts >= max_retries

\* retry_failed, lines 266-274, on one queue
Retried(q) ==
    [k \in 1..Len(q) |->
        IF NeedsRetry(q[k])
        THEN [q[k] EXCEPT !.attempts = 0, !.last_attempt_at = None, !.last_error = None]
        ELSE q[k]]

---------------------------------------------------------------------------
(* ChangeDebouncer, watcher.rs *)

MaxAdds == 4

MaxTakes == 2

ChangeOperations == {"create", "update", "delete"}

\* FileChange, with the number of the add call that brought it (n is read by
\* the properties only)
FileChange(file, operation, n) ==
    [vault_path |-> file[1], relative_path |-> file[2], operation |-> operation, n |-> n]

\* ChangeDebouncer::new, lines 190-195. taken: the lists the take calls
\* returned; absorbed: the add calls whose change was merged into a pending
\* one or cancelled with it
DebouncerInit ==
    debouncer = [pending |-> <<>>, taken |-> <<>>, absorbed |-> {}, nAdds |-> 0]

\* add, lines 202-204: the position of the pending change for the same file
Existing(pending, change) ==
    {k \in 1..Len(pending) :
        /\ pending[k].vault_path = change.vault_path
        /\ pending[k].relative_path = change.relative_path
        /\ \A j \in 1..(k - 1) : ~(pending[j].vault_path = change.vault_path
                                    /\ pending[j].relative_path = change.relative_path)}

\* add, lines 206-221: create then delete cancels the pending change
Cancels(existing, new) == existing = "create" /\ new = "delete"

\* Variant: the later operation is adopted
AdoptLater(existing, new) == new

\* add, lines 206-221: the operation of the pending change after the add
Coalesced(existing, new) ==
    IF existing = "create" /\ new = "update" THEN "create" ELSE new

\* ChangeDebouncer::add, lines 198-227
Added(pending, change) ==
    IF Existing(pending, change) # {}
    THEN LET k == CHOOSE j \in Existing(pending, change) : TRUE
         IN  IF Cancels(pending[k].operation, change.operation)
             THEN SelectSeq(pending, LAMBDA c : ~(c.vault_path = change.vault_path
                                                  /\ c.relative_path = change.relative_path))
             ELSE [pending EXCEPT ![k].operation = Coalesced(@, change.operation)]
    ELSE Append(pending, change)

\* Variant: the taken list stays pending
LeftByTakeAll(pending) == pending

\* take, line 231: std::mem::take leaves the default, an empty list
LeftByTake(pending) == <<>>

---------------------------------------------------------------------------
(* Actions *)

\* VaultState.last_cursor (state.rs line 29) of a connected vault: none, or a
\* cursor stored earlier (update_sync_cursor_by_id, lines 299-309)
StoredCursors == {None, Some(1)}

\* The manifest sync_connect_vault writes (commands.rs lines 539-545)
ConnectManifest == VaultSyncManifest("v1", "https://s1", "u1", Now)

IdleCommand == [pc |-> "idle", wasEnabled |-> FALSE, hadStates |-> FALSE,
                overlapped |-> FALSE, started |-> 0, done |-> FALSE]

InitLocal ==
    /\ disk \in {d \in [Paths -> Contents \cup {Absent}] : d["x.bin"] = Absent}
    /\ conflictFiles = {}
    /\ fstate = [p \in Paths |-> None]
    /\ vault \in {[enabled |-> TRUE, status |-> "Idle", last_sync_at |-> None,
                   last_cursor |-> c] : c \in StoredCursors}
    /\ manifest = Some(ConnectManifest)
    /\ cmd = IdleCommand
    /\ eng = [e \in Tasks |-> IdleTask]
    /\ nStarted = 0
    /\ nEnv = 0
    /\ fsStreak = 0
    /\ remStreak = 0
    /\ StoreInit
    /\ QueueInit
    /\ DebouncerInit

Init ==
    /\ InitLocal
    /\ srvLog = <<>>
    /\ call = NoCall

\* SyncEngine::sync, lines 128-143: a new engine, then the initial scan
\* (scan_vault(..)? returns the scan's error to the caller)
StartCycle(e, additive) ==
    /\ eng[e].pc = "idle"
    /\ nStarted < MaxCycles
    /\ nStarted' = nStarted + 1
    /\ \E scanOk \in BOOLEAN :
        LET others == \E o \in Tasks \ {e} : InFlight(eng[o])
            t0 == [IdleTask EXCEPT !.additive = additive,
                                   !.startEmpty = \A p \in Paths : fstate[p] = None,
                                   !.overlap = others,
                                   !.pc = IF scanOk THEN "pull" ELSE "failed"]
        IN  /\ eng' = [o \in Tasks |->
                        IF o = e THEN t0
                        ELSE IF InFlight(eng[o]) THEN [eng[o] EXCEPT !.overlap = TRUE]
                        ELSE eng[o]]
            /\ fsStreak' = FsStreakAfter(t0)
            /\ remStreak' = RemStreakAfter(t0)
    /\ UNCHANGED <<disk, conflictFiles, fstate, srvLog, nEnv>>
    /\ UNCHANGED <<storeVars, call, queueVars, debouncer, cmd>>

\* commands.rs sync_now, lines 376-405
sync_now(e) ==
    /\ vault.enabled
    /\ StartCycle(e, FALSE)
    /\ UNCHANGED <<vault, manifest>>

\* commands.rs sync_connect_vault, lines 519-560: enable_vault, the manifest
\* is written, then an additive-only cycle
sync_connect_vault(e) ==
    /\ vault' = [vault EXCEPT !.enabled = TRUE, !.status = "Idle"]
    /\ manifest' = Some(ConnectManifest)
    /\ StartCycle(e, TRUE)

\* End of a page: the next request, or the end of the pull (lines 287-290)
AfterPage(t) ==
    IF t.has_more
    THEN [t EXCEPT !.cursor = Some(t.next_cursor), !.pc = "pull"]
    ELSE [t EXCEPT !.pc = "rescan"]

\* pull_changes, lines 234-264: one POST of the pull endpoint
PullRequest(e) ==
    /\ eng[e].pc = "pull"
    /\ \/ \E servings \in [1..PageLen(srvLog, eng[e].cursor, PullLimit) -> Servings] :
            LET r == PullResponse(srvLog, eng[e].cursor, PullLimit, servings)
                t == [eng[e] EXCEPT !.page = r.changes, !.has_more = r.has_more,
                                    !.next_cursor = r.next_cursor, !.last = ""]
            IN  Step(e, IF r.changes = <<>> THEN AfterPage(t) ELSE [t EXCEPT !.pc = "apply"])
       \/ \* the request fails: sync records "Pull failed" and goes on (lines 151-154)
          \E failure \in RequestFailures :
            Step(e, AfterPullError([eng[e] EXCEPT !.fault = TRUE, !.last = "",
                                                  !.pullFailed = TRUE,
                                                  !.authFailed = @ \/ failure = "401"]))
    /\ UNCHANGED <<disk, conflictFiles, fstate, vault, srvLog, nStarted, nEnv>>
    /\ UNCHANGED <<storeVars, call, auxVars>>

\* pull_changes, lines 268-285: one change of the page
ApplyChange(e) ==
    /\ eng[e].pc = "apply"
    /\ eng[e].page # <<>>
    /\ \E netOk \in BOOLEAN :
        LET t == eng[e]
            change == Head(t.page)
            p == PathOf(decode_path(change.encrypted_path))
            out == apply_remote_change(t.additive, disk, fstate, change, netOk)
            t1 == [t EXCEPT !.page = Tail(@),
                            !.applied = IF out.kind \in {"written", "deleted"}
                                        THEN @ \cup {p} ELSE @,
                            !.kept = IF /\ out.kind = "skipped"
                                        /\ change.operation \in {"create", "update"}
                                        /\ compute_hash(disk[p]) # change.content_hash
                                     THEN @ \cup {p} ELSE @,
                            !.downloaded = IF out.ok THEN @ + 1 ELSE @,
                            !.failed = IF out.ok THEN @ ELSE @ + 1,
                            !.written = IF out.kind = "written" THEN @ + 1 ELSE @,
                            !.skipped = IF out.kind = "skipped" THEN @ + 1 ELSE @,
                            !.last = out.kind]
        IN  /\ disk' = IF out.ok THEN out.disk ELSE disk
            /\ fstate' = IF out.ok THEN out.fstate ELSE fstate
            /\ Step(e, IF t1.page = <<>> THEN AfterPage(t1) ELSE t1)
    /\ UNCHANGED <<conflictFiles, vault, srvLog, nStarted, nEnv>>
    /\ UNCHANGED <<storeVars, call, auxVars>>

\* sync, lines 157-166, and push_changes_incremental, lines 440-482: the second
\* scan, the diff against the file states, the batch
Rescan(e) ==
    /\ eng[e].pc = "rescan"
    /\ \E scanOk \in BOOLEAN :
        LET scan == scan_vault(disk)
            cs == get_local_changes(fstate, scan)
            batch == BuildBatch(fstate, scan, cs)
            t == [eng[e] EXCEPT !.changed = cs.changed, !.deleted = cs.deleted,
                                !.batch = batch, !.last = ""]
        IN  Step(e, IF ~scanOk THEN [eng[e] EXCEPT !.pc = "failed", !.last = ""]
                    ELSE IF batch = <<>> THEN Finished(t)
                    ELSE [t EXCEPT !.pc = "push"])
    /\ UNCHANGED <<disk, conflictFiles, fstate, vault, srvLog, nStarted, nEnv>>
    /\ UNCHANGED <<storeVars, call, auxVars>>

\* push_changes_incremental, lines 486-513: the POST of the push endpoint
PushRequest(e) ==
    /\ eng[e].pc = "push"
    /\ \/ \E resp \in PushResponses(eng[e].batch) :
            Step(e, [eng[e] EXCEPT !.results = resp, !.pushSent = TRUE,
                                   !.fault = \E i \in 1..Len(resp) : resp[i].status # "accepted",
                                   !.pc = "upload"])
       \/ \* the request fails: sync records "Push failed" (lines 183-186)
          \E failure \in RequestFailures :
            Step(e, AfterPushError([eng[e] EXCEPT !.pushSent = TRUE, !.fault = TRUE,
                                                  !.pushFailed = TRUE,
                                                  !.authFailed = @ \/ failure = "401"]))
    /\ UNCHANGED <<disk, conflictFiles, fstate, vault, srvLog, nStarted, nEnv>>
    /\ UNCHANGED <<storeVars, call, auxVars>>

\* push_changes_incremental, lines 516-562: one result of the push response.
\* upOk: the PUT of the file's bytes succeeds.
ProcessResult(e) ==
    /\ eng[e].pc = "upload"
    /\ eng[e].results # <<>>
    /\ \E upOk \in BOOLEAN :
        LET t == eng[e]
            r == Head(t.results)
            p == PathOf(decode_path(r.encrypted_path))
            isUpload == r.status = "accepted" /\ r.upload_url # None /\ disk[p] # Absent
            isDelete == r.status = "accepted" /\ r.upload_url = None
            version == IF r.new_version = None THEN 1 ELSE AsU32(Unwrap(r.new_version))
            hasUrl == r.status = "accepted" /\ r.upload_url # None
            t1 == [t EXCEPT !.results = Tail(@),
                            !.put = IF ~hasUrl THEN ""
                                    ELSE IF disk[p] = Absent THEN "unreadable"
                                    ELSE IF upOk THEN "ok" ELSE "failed",
                            !.confirmSent = isUpload /\ upOk /\ r.file_id # None,
                            !.uploaded = IF isUpload /\ upOk THEN @ + 1 ELSE @,
                            !.uploadFailed = IF isUpload /\ ~upOk THEN @ + 1 ELSE @,
                            !.fault = @ \/ (isUpload /\ ~upOk),
                            !.files_deleted = IF isDelete THEN @ + 1 ELSE @]
        IN  /\ fstate' = IF isUpload /\ upOk
                         THEN mark_synced_by_id(fstate, p, compute_hash(disk[p]), version)
                         ELSE IF isDelete THEN remove_file_state_by_id(fstate, p)
                         ELSE fstate
            /\ Step(e, IF t1.results = <<>> THEN Finished(t1) ELSE t1)
    /\ UNCHANGED <<disk, conflictFiles, vault, srvLog, nStarted, nEnv>>
    /\ UNCHANGED <<storeVars, call, auxVars>>

\* sync_now, lines 405-412 (sync_connect_vault, lines 560-566): the command
\* returns; a successful result stamps the vault's last sync
Return(e) ==
    /\ eng[e].pc \in {"done", "failed"}
    /\ vault' = IF eng[e].pc = "done" /\ Unwrap(eng[e].result).success
                THEN [vault EXCEPT !.last_sync_at = Some(Now), !.status = "Idle"]
                ELSE vault
    /\ eng' = [eng EXCEPT ![e] = IdleTask]
    /\ UNCHANGED <<disk, conflictFiles, fstate, srvLog, nStarted, nEnv, fsStreak, remStreak>>
    /\ UNCHANGED <<storeVars, call, auxVars>>

\* The environment acts between the cycles of the vault
Quiescent == \A o \in Tasks : ~InFlight(eng[o])

\* The note editor (outside the engine) writes or removes a note
ExtWrite(p, c) ==
    /\ Quiescent
    /\ nEnv < MaxEnv
    /\ IsSyncable(p)
    /\ disk[p] # c
    /\ disk' = [disk EXCEPT ![p] = c]
    /\ nEnv' = nEnv + 1
    /\ fsStreak' = 0
    /\ UNCHANGED <<conflictFiles, fstate, vault, srvLog, eng, nStarted, remStreak>>
    /\ UNCHANGED <<storeVars, call, auxVars>>

ExtDelete(p) ==
    /\ Quiescent
    /\ nEnv < MaxEnv
    /\ IsSyncable(p)
    /\ disk[p] # Absent
    /\ disk' = [disk EXCEPT ![p] = Absent]
    /\ nEnv' = nEnv + 1
    /\ fsStreak' = 0
    /\ UNCHANGED <<conflictFiles, fstate, vault, srvLog, eng, nStarted, remStreak>>
    /\ UNCHANGED <<storeVars, call, auxVars>>

\* Another device pushes a change: it joins the feed. The versions of a path
\* grow along the feed.
RemoteAppend(ch) ==
    /\ Quiescent
    /\ nEnv < MaxEnv
    /\ \A i \in 1..Len(srvLog) : srvLog[i].path = ch.path => srvLog[i].version < ch.version
    /\ srvLog' = Append(srvLog, ch)
    /\ nEnv' = nEnv + 1
    /\ remStreak' = 0
    /\ UNCHANGED <<disk, conflictFiles, fstate, vault, eng, nStarted, fsStreak>>
    /\ UNCHANGED <<storeVars, call, auxVars>>

Environment ==
    \/ \E p \in Paths, c \in Contents : ExtWrite(p, c)
    \/ \E p \in Paths : ExtDelete(p)
    \/ \E ch \in FeedChanges : RemoteAppend(ch)

Cycle(e) ==
    \/ sync_now(e)
    \/ sync_connect_vault(e)
    \/ PullRequest(e)
    \/ ApplyChange(e)
    \/ Rescan(e)
    \/ PushRequest(e)
    \/ ProcessResult(e)
    \/ Return(e)

\* One task: cycles of the vault follow each other
Next == Cycle(1) \/ Environment

Spec == Init /\ [][Next]_vars

\* Two tasks: the commands are async handlers, two invocations for the same
\* vault run side by side. The feed is given; the environment does not act.
InitConc ==
    /\ InitLocal
    /\ vault.last_cursor = None
    /\ srvLog \in {<<>>} \cup {<<f>> : f \in FeedChanges}
    /\ call = NoCall

NextConc == \E e \in Tasks : Cycle(e)

SpecConc == InitConc /\ [][NextConc]_vars

\* The note editor saves a note while a cycle of the vault is in flight
EditDuringCycle(p, c) ==
    /\ ~Quiescent
    /\ nEnv < MaxEdits
    /\ IsSyncable(p)
    /\ disk[p] # c
    /\ disk' = [disk EXCEPT ![p] = c]
    /\ nEnv' = nEnv + 1
    /\ fsStreak' = 0
    /\ UNCHANGED <<conflictFiles, fstate, vault, srvLog, eng, nStarted, remStreak>>
    /\ UNCHANGED <<storeVars, call, auxVars>>

\* sync_disable_vault, commands.rs line 363: disable_vault (state.rs lines
\* 226-244)
DisableVault ==
    /\ cmd.pc = "idle"
    /\ ~cmd.done
    /\ vault' = [vault EXCEPT !.enabled = FALSE, !.status = "Disabled"]
    /\ cmd' = [pc |-> "clear", wasEnabled |-> vault.enabled,
               hadStates |-> \E p \in Paths : fstate[p] # None,
               overlapped |-> ~Quiescent, started |-> nStarted, done |-> FALSE]
    /\ UNCHANGED <<disk, conflictFiles, fstate, srvLog, eng, nStarted, nEnv, fsStreak,
                   remStreak, manifest>>
    /\ UNCHANGED <<storeVars, call, queueVars, debouncer>>

\* Variant: the file states are kept
clear_vault_file_states_kept(fs) == fs

\* clear_vault_file_states, state.rs lines 678-692: the group of the vault is
\* removed
clear_vault_file_states(fs) == [p \in Paths |-> None]

\* sync_disable_vault, line 366: clear_vault_file_states
ClearVaultFileStates ==
    /\ cmd.pc = "clear"
    /\ fstate' = clear_vault_file_states(fstate)
    /\ cmd' = [cmd EXCEPT !.pc = "unlink"]
    /\ UNCHANGED <<disk, conflictFiles, vault, srvLog, eng, nStarted, nEnv, fsStreak,
                   remStreak, manifest>>
    /\ UNCHANGED <<storeVars, call, queueVars, debouncer>>

\* sync_disable_vault, lines 369-371: delete_sync_manifest (lines 51-58), and
\* the command returns
DeleteSyncManifest ==
    /\ cmd.pc = "unlink"
    /\ manifest' = None
    /\ cmd' = [cmd EXCEPT !.pc = "idle", !.done = TRUE]
    /\ UNCHANGED <<engineVars, storeVars, call, queueVars, debouncer>>

sync_disable_vault == DisableVault \/ ClearVaultFileStates \/ DeleteSyncManifest

\* One task runs the cycles of the vault; the note editor and the
\* sync_disable_vault command act while a cycle is in flight. The commands are
\* async handlers on the runtime's threads; no lock spans a command.
InitLive ==
    /\ InitLocal
    /\ vault.last_cursor = None
    /\ srvLog \in {<<>>} \cup {<<f>> : f \in FeedChanges}
    /\ call = NoCall

NextLive ==
    \/ Cycle(1)
    \/ \E p \in Paths, c \in Contents : EditDuringCycle(p, c)
    \/ sync_disable_vault

SpecLive == InitLive /\ [][NextLive]_vars

\* The callers of the store: commands and engines, on the runtime's threads
StoreCall(t) ==
    \/ \E path \in VaultPaths, id \in VaultIds : enable_vault(t, path, id)
    \/ \E path \in VaultPaths, id \in VaultIds, enabled \in BOOLEAN :
            set_vault_state(t, VaultState(id, path, enabled))
    \/ \E path \in VaultPaths, id \in VaultIds : update_vault_path(t, id, path)
    \/ \E path \in VaultPaths : disable_vault(t, path)
    \/ \E path \in VaultPaths : remove_vault(t, path)
    \/ \E id \in VaultIds : remove_vault_by_id(t, id)
    \/ \E id \in VaultIds : set_file_state_by_id(t, id, "a.md", FileSyncState("h1", 1))
    \/ \E id \in VaultIds, key \in VaultKeys : set_vault_key(t, id, key)
    \/ clear(t)
    \/ save_sync(t)

InitStore ==
    /\ Init
    /\ vault.last_cursor = None
    /\ disk["a.md"] = Absent

NextStore == \E t \in Tasks : StoreCall(t)

SpecStore == InitStore /\ [][NextStore]_vars

---------------------------------------------------------------------------
(* Single calls of the functions of the program, on inputs of bounded size *)

\* The maps with keys in K and values in V
PartialMaps(K, V) == UNION {[S -> V] : S \in SUBSET K}

\* The sequences that list the elements of S once each
Orders(S) == {o \in UNION {[1..n -> S] : n \in {Cardinality(S)}} :
                \A x \in S : \E i \in DOMAIN o : o[i] = x}

Hashes == {compute_hash(c) : c \in Contents}

\* Texts a peer may send as encrypted_path
WireTexts ==
    {Str(p) : p \in Paths}
    \cup {Base64Encode(Str(p)) : p \in Paths}
    \cup {Base64Encode(Base64Encode(Str("a.md"))),
          Base64Encode(NotUtf8), Base64Encode(Base64Encode(NotUtf8))}

\* State files of format version 0 or 1: the maps are keyed by vault path, a
\* record may lack its vault_id
V1Groups == {[p \in {"a.md"} |-> FileSyncState("h1", 1)],
             [p \in {"a.md"} |-> FileSyncState("h2", 2)]}

V1Vaults ==
    {v \in PartialMaps(VaultPaths, {VaultState(id, path, TRUE) :
                                        id \in {"", "v1"}, path \in VaultPaths}) :
        \A k \in DOMAIN v : v[k].vault_path = k}

V1Files ==
    {[version |-> n, vaults |-> v, file_states |-> f, path_to_vault_id |-> EmptyMap] :
        n \in {0, 1}, v \in V1Vaults, f \in PartialMaps(VaultPaths, V1Groups)}

\* Stored file states, with or without a local_hash
StoredStates ==
    {[FileSyncState(h, 1) EXCEPT !.local_hash = lh] :
        h \in {"h1"}, lh \in {None} \cup {Some(x) : x \in Hashes}}

PendingInputs ==
    {[maps |-> [vaults |-> [id \in {"v1"} |-> VaultState("v1", "/p", TRUE)],
                path_to_vault_id |-> [q \in {"/p"} |-> "v1"],
                file_states |-> fs],
      disk |-> d] :
        fs \in {EmptyMap} \cup {[id \in {"v1"} |-> g] : g \in PartialMaps(Paths, StoredStates)},
        d \in {x \in [Paths -> Contents \cup {Absent}] : x["x.bin"] # "c2"}}

\* Original paths: with an extension, without one, a dotfile, a stem with a
\* dot, the name of a conflict copy
OriginalPaths ==
    {[dir |-> d, name |-> n] :
        d \in {"", "notes/"},
        n \in {<<"test", ".", "md">>, <<"README">>, <<".", "gitignore">>,
               <<"a", ".", "b", ".", "md">>,
               <<"a", ".", "sync-conflict-", "x", ".", "md">>}}

\* Device ids of 8 characters or more: their first 8 characters and the rest
DeviceIds ==
    {[short |-> <<"device12">>, rest |-> <<"3">>],
     [short |-> <<"dev", ".", "ice1">>, rest |-> <<>>]}

ConflictResolutions == {"KeepLocal", "KeepRemote", "KeepBoth"}

\* A vault directory with or without the original file and with or without
\* the conflict copy a device made of it, and a resolution
ResolveInputs ==
    {[original |-> o,
      conflict_path |-> generate_conflict_path(o, d, "1700000000"),
      files |-> [f \in (IF hasOriginal THEN {o} ELSE {})
                        \cup (IF hasConflict
                              THEN {generate_conflict_path(o, d, "1700000000")} ELSE {})
                    |-> IF f = o THEN "c1" ELSE "c2"],
      keep |-> keep] :
        o \in {x \in OriginalPaths : x.dir = ""}, d \in DeviceIds,
        hasOriginal \in BOOLEAN, hasConflict \in BOOLEAN, keep \in ConflictResolutions}

UserIds == {"u1", "u2"}

ServerUrls == {"https://s1", "https://s2"}

\* The session after sync_login or sync_restore_session, or none
Sessions == {None} \cup {Some([user_id |-> u, server_url |-> url]) :
                            u \in UserIds, url \in ServerUrls}

\* The vault directory /p with or without the manifest that user u1 wrote when
\* connecting it to v1, the store as earlier commands left it, the session
ReconnectInputs ==
    [maps : {EmptyMaps, EnabledVault(EmptyMaps, "/p", "v1"),
             DisabledById(EnabledVault(EmptyMaps, "/p", "v1"), "v1"),
             EnabledVault(EmptyMaps, "/p", "v2"), EnabledVault(EmptyMaps, "/q", "v1")},
     manifest : {None} \cup {Some(VaultSyncManifest("v1", url, "u1", "then")) :
                                url \in ServerUrls},
     session : Sessions]

Calls ==
    {Call("detect_changes", [current |-> c, previous |-> pr]) :
        c \in PartialMaps(Paths, Hashes), pr \in PartialMaps(Paths, Hashes)}
    \cup {Call("decode_path", x) : x \in WireTexts}
    \cup {Call("load_sync", f) : f \in V1Files}
    \cup {Call("count_pending_changes", i) : i \in PendingInputs}
    \cup {Call("generate_conflict_path", [path |-> o, device |-> d, timestamp |-> "1700000000"]) :
            o \in OriginalPaths, d \in DeviceIds}
    \cup {Call("resolve_conflict", i) : i \in ResolveInputs}
    \cup {Call("sync_auto_reconnect_vault", i) : i \in ReconnectInputs}

Returns(fn, ret) ==
    /\ call.fn = fn
    /\ call.ret = None
    /\ call' = [call EXCEPT !.ret = Some(ret)]
    /\ UNCHANGED <<engineVars, storeVars, auxVars>>

Call_detect_changes ==
    /\ call.fn = "detect_changes"
    /\ Returns("detect_changes", detect_changes(call.arg.current, call.arg.previous))

\* A text is decoded as a path, and encoded as one
Call_decode_path ==
    /\ call.fn = "decode_path"
    /\ Returns("decode_path", [decoded |-> decode_path(call.arg), encoded |-> encode_path(call.arg)])

Call_load_sync ==
    /\ call.fn = "load_sync"
    /\ \E order \in Orders(DOMAIN call.arg.vaults) :
          Returns("load_sync", load_sync(Some(call.arg), order))

\* The status command counts the pending changes of the vault at /p; a cycle
\* of the same vault computes its diff over the same files and file states
Call_count_pending_changes ==
    /\ call.fn = "count_pending_changes"
    /\ Returns("count_pending_changes",
               [pending |-> count_pending_changes(call.arg.maps, call.arg.disk, "/p"),
                diff |-> get_local_changes(AsFileStates(call.arg.maps, "v1"),
                                           scan_vault(call.arg.disk))])

\* A conflict path is generated, recognised and mapped back
Call_generate_conflict_path ==
    /\ call.fn = "generate_conflict_path"
    /\ LET conflict == generate_conflict_path(call.arg.path, call.arg.device,
                                              call.arg.timestamp)
       IN  Returns("generate_conflict_path",
                   [conflict |-> conflict,
                    original |-> get_original_path(conflict),
                    is_conflict |-> is_conflict_file(conflict)])

Call_resolve_conflict ==
    /\ call.fn = "resolve_conflict"
    /\ Returns("resolve_conflict",
               resolve_conflict(call.arg.files, call.arg.conflict_path, call.arg.keep,
                                "1700000100"))

Call_sync_auto_reconnect_vault ==
    /\ call.fn = "sync_auto_reconnect_vault"
    /\ Returns("sync_auto_reconnect_vault",
               sync_auto_reconnect_vault(call.arg.maps, call.arg.manifest,
                                         call.arg.session, "/p", Now))

InitFn ==
    /\ InitLocal
    /\ vault.last_cursor = None
    /\ disk["a.md"] = Absent
    /\ srvLog = <<>>
    /\ call \in Calls

NextFn ==
    \/ Call_detect_changes
    \/ Call_decode_path
    \/ Call_load_sync
    \/ Call_count_pending_changes
    \/ Call_generate_conflict_path
    \/ Call_resolve_conflict
    \/ Call_sync_auto_reconnect_vault

SpecFn == InitFn /\ [][NextFn]_vars

---------------------------------------------------------------------------
(* Calls of the SyncQueue. Each call holds the lock of its queue for its
   whole body. The call variable keeps the last call: its name, the queues
   and the time it found, its argument and its result. *)

QueueNames == {"upload", "download"}

QueueCall(fn, which, x, ret) ==
    [fn |-> fn, arg |-> [which |-> which, before |-> queue, now |-> clock, x |-> x],
     ret |-> ret]

\* A call that changes the queues
QueueUpdate(fn, which, x, q) ==
    /\ nQueueOps < MaxQueueOps
    /\ nQueueOps' = nQueueOps + 1
    /\ queue' = q
    /\ call' = QueueCall(fn, which, x, None)
    /\ UNCHANGED clock
    /\ UNCHANGED <<engineVars, storeVars, debouncer, cmdVars>>

\* Ids of the items in the queues
QueuedIds == UNION {{queue[w][k].id : k \in 1..Len(queue[w])} : w \in QueueNames}

\* enqueue_upload / enqueue_download of a new item (a fresh uuid)
enqueue(which, file, priority) ==
    LET item == QueueItem(nQueueOps + 1, file, priority)
    IN  QueueUpdate("enqueue", which, item,
                    [queue EXCEPT ![which] = Enqueued(@, item)])

\* next_upload / next_download
next(which) ==
    /\ call' = QueueCall("next", which, None, NextReady(queue[which], clock))
    /\ call' # call
    /\ queue' = [queue EXCEPT ![which] = LeftByNext(@, NextReady(@, clock))]
    /\ UNCHANGED <<clock, nQueueOps>>
    /\ UNCHANGED <<engineVars, storeVars, debouncer, cmdVars>>

\* complete_upload / complete_download
complete(which, id) ==
    QueueUpdate("complete", which, id, [queue EXCEPT ![which] = WithoutId(@, id)])

\* remove_upload / remove_download
remove(which, id) ==
    QueueUpdate("remove", which, id, [queue EXCEPT ![which] = WithoutId(@, id)])

\* fail_upload / fail_download
fail(which, id) ==
    QueueUpdate("fail", which, id, [queue EXCEPT ![which] = Failed_(@, id, "error", clock)])

\* retry_failed, lines 263-287
retry_failed ==
    QueueUpdate("retry_failed", "both", None,
                [upload |-> Retried(queue.upload), download |-> Retried(queue.download)])

\* clear_all, lines 257-260
clear_all ==
    QueueUpdate("clear_all", "both", None, [upload |-> <<>>, download |-> <<>>])

\* SystemTime::now() grows
Tick ==
    /\ clock < MaxClock
    /\ clock' = clock + 1
    /\ UNCHANGED <<queue, nQueueOps, call>>
    /\ UNCHANGED <<engineVars, storeVars, debouncer, cmdVars>>

InitQueue ==
    /\ Init
    /\ vault.last_cursor = None
    /\ disk["a.md"] = Absent

NextQueue ==
    \/ \E w \in QueueNames, f \in QueueFiles, pr \in Priorities : enqueue(w, f, pr)
    \/ \E w \in QueueNames : next(w)
    \/ \E w \in QueueNames, id \in QueuedIds : complete(w, id)
    \/ \E w \in QueueNames, id \in QueuedIds : remove(w, id)
    \/ \E w \in QueueNames, id \in QueuedIds : fail(w, id)
    \/ retry_failed
    \/ clear_all
    \/ Tick

SpecQueue == InitQueue /\ [][NextQueue]_vars

---------------------------------------------------------------------------
(* Calls of the ChangeDebouncer by two threads. add and take hold the write
   lock of the pending list for their whole body. *)

\* add of caller t
add(t, file, operation) ==
    LET change == FileChange(file, operation, debouncer.nAdds + 1)
        found == Existing(debouncer.pending, change)
        k == CHOOSE j \in found : TRUE
    IN  /\ debouncer.nAdds < MaxAdds
        /\ debouncer' = [debouncer EXCEPT
                !.pending = Added(@, change),
                !.nAdds = @ + 1,
                !.absorbed = IF found = {} THEN @
                             ELSE IF Cancels(debouncer.pending[k].operation, operation)
                             THEN @ \cup {change.n, debouncer.pending[k].n}
                             ELSE @ \cup {change.n}]
        /\ call' = [fn |-> "add", arg |-> [before |-> debouncer.pending, x |-> change],
                    ret |-> None]
        /\ UNCHANGED <<engineVars, storeVars, queueVars, cmdVars>>

\* take of caller t
take(t) ==
    /\ Len(debouncer.taken) < MaxTakes
    /\ debouncer' = [debouncer EXCEPT !.pending = LeftByTake(@),
                                      !.taken = Append(@, debouncer.pending)]
    /\ call' = [fn |-> "take", arg |-> [before |-> debouncer.pending, x |-> t],
                ret |-> Some(debouncer.pending)]
    /\ UNCHANGED <<engineVars, storeVars, queueVars, cmdVars>>

InitDebouncer ==
    /\ Init
    /\ vault.last_cursor = None
    /\ disk["a.md"] = Absent

NextDebouncer ==
    \E t \in Tasks :
        \/ \E file \in QueueFiles, operation \in ChangeOperations : add(t, file, operation)
        \/ take(t)

SpecDebouncer == InitDebouncer /\ [][NextDebouncer]_vars

---------------------------------------------------------------------------
(* Properties *)

\* The step is one of task e applying the change at the head of its page
Applies(e) == eng[e].pc = "apply" /\ eng'[e] # eng[e]

HeadChange(e) == Head(eng[e].page)

HeadPath(e) == PathOf(decode_path(HeadChange(e).encrypted_path))

Synced(p) ==
    /\ fstate[p] # None
    /\ Unwrap(fstate[p]).local_hash = Some(compute_hash(disk[p]))
    /\ Unwrap(fstate[p]).remote_hash = Unwrap(fstate[p]).local_hash

AfterTwoCleanCycles ==
    /\ fsStreak >= 2
    /\ \A e \in Tasks : eng[e].pc \in {"idle", "done"}

\* C1: with a state store, after two successive cycles with a server that
\* accepts every push and upload and no filesystem change from outside, every
\* syncable file on disk has a FileSyncState whose local_hash is the hash of
\* the content on disk and equals its remote_hash.
C1_SyncedAfterTwoCycles ==
    AfterTwoCleanCycles =>
        \A p \in Paths : IsSyncable(p) /\ disk[p] # Absent => Synced(p)

C1_Witness ==
    /\ AfterTwoCleanCycles
    /\ disk["a.md"] # Absent
    /\ eng[1].pc = "done"

\* C2: the second of two successive cycles with no local and no remote change
\* in between builds an empty push batch, sends no push request and returns
\* files_uploaded = 0, files_downloaded = 0 and success = true.
C2_SecondCycleDoesNothing ==
    \A e \in Tasks :
        eng[e].pc = "done" /\ fsStreak >= 2 /\ remStreak >= 2 =>
            /\ eng[e].batch = <<>>
            /\ ~eng[e].pushSent
            /\ Unwrap(eng[e].result).files_uploaded = 0
            /\ Unwrap(eng[e].result).files_downloaded = 0
            /\ Unwrap(eng[e].result).success

\* C3: in a cycle that starts with no FileSyncState and whose pull downloads
\* files, the diff has an empty deleted list and the push batch no delete entry.
C3_NoDeletionAfterFirstPull ==
    \A e \in Tasks :
        /\ eng[e].startEmpty
        /\ eng[e].written > 0
        /\ ~eng[e].overlap
        /\ eng[e].pc \in {"push", "upload", "done"}
        => /\ eng[e].deleted = {}
           /\ \A i \in 1..Len(eng[e].batch) : eng[e].batch[i].operation # "delete"

\* C4: an additive-only pull never removes a file that exists locally and never
\* changes the content of one, whatever remote changes it applies.
C4_AdditivePullKeepsLocalFiles ==
    [][\A e \in Tasks :
        eng[e].additive /\ eng[e].pc \in {"pull", "apply"} /\ eng'[e] # eng[e] =>
            \A p \in Paths : disk[p] # Absent => disk'[p] = disk[p]]_vars

C4_Witness ==
    \E e \in Tasks :
        /\ eng[e].additive
        /\ eng[e].last = "skipped"
        /\ disk["a.md"] # Absent

\* C5: when applying a remote change fails or the upload of a file fails, an
\* error is appended to the cycle's errors, so the result has success = false.
C5_FileErrorsAreReported ==
    \A e \in Tasks :
        eng[e].pc = "done" /\ (eng[e].failed > 0 \/ eng[e].uploadFailed > 0) =>
            /\ Unwrap(eng[e].result).errors # <<>>
            /\ ~Unwrap(eng[e].result).success

\* The change task e applies in this step is defective: a create/update with no
\* download URL, or whose downloaded bytes do not hash to content_hash, or a
\* change with an unknown op
CreateOrUpdate(ch) == ch.operation \in {"create", "update"}

DefectiveChange(e) ==
    \/ CreateOrUpdate(HeadChange(e)) /\ HeadChange(e).download_url = None
    \/ /\ CreateOrUpdate(HeadChange(e))
       /\ compute_hash(HeadChange(e).bytes) # HeadChange(e).content_hash
       /\ eng'[e].last \in {"hash mismatch", "written"}
    \/ HeadChange(e).operation \notin {"create", "update", "delete"}

\* The pull goes on with the next change, the next page or the rescan
PullGoesOn(e) ==
    /\ eng'[e].page = Tail(eng[e].page)
    /\ eng'[e].pc \in {"apply", "pull", "rescan"}

C7_NoOlderVersionApplied ==
    [][\A e \in Tasks :
        /\ Applies(e)
        /\ fstate[HeadPath(e)] # None
        /\ Unwrap(fstate[HeadPath(e)]).remote_version # None
        /\ AsU32(HeadChange(e).version) < Unwrap(Unwrap(fstate[HeadPath(e)]).remote_version)
        => /\ disk'[HeadPath(e)] = disk[HeadPath(e)]
           /\ fstate'[HeadPath(e)] = fstate[HeadPath(e)]]_vars

\* C8: at most one cycle of the vault is in flight at any time.
C8_OneCycleInFlight ==
    Cardinality({e \in Tasks : InFlight(eng[e])}) <= 1

\* C9: when a pull that is not additive-only replaces a file whose content
\* differs from the local_hash stored for it, the local content is kept in a
\* conflict file next to it.
C9_LocalEditPreserved ==
    [][\A e \in Tasks :
        /\ Applies(e)
        /\ ~eng[e].additive
        /\ CreateOrUpdate(HeadChange(e))
        /\ disk[HeadPath(e)] # Absent
        /\ fstate[HeadPath(e)] # None
        /\ Unwrap(fstate[HeadPath(e)]).local_hash # Some(compute_hash(disk[HeadPath(e)]))
        /\ disk'[HeadPath(e)] # disk[HeadPath(e)]
        => \E c \in conflictFiles' :
              c.original = HeadPath(e) /\ c.content = disk[HeadPath(e)]]_vars

\* C10: every invocation of sync() returns a SyncOperationResult, never an
\* error, and its success field equals errors.is_empty().
C10_AlwaysReturnsAResult ==
    \A e \in Tasks :
        /\ eng[e].pc # "failed"
        /\ eng[e].pc = "done" =>
              /\ eng[e].result # None
              /\ Unwrap(eng[e].result).success = (Unwrap(eng[e].result).errors = <<>>)

\* C11: a failure of the pull endpoint is recorded in errors and ends only the
\* pull: the cycle goes on with the rescan, and a cycle that returns its result
\* after a failed pull has built its batch and, when the batch is not empty,
\* sent the push. A failure of the push endpoint is recorded in errors and
\* leaves the files and the file states as the pull left them.
C11_EndpointFailureEndsOnePhase ==
    [][\A e \in Tasks :
        /\ ~eng[e].pullFailed /\ eng'[e].pullFailed =>
              /\ eng'[e].errors = Append(eng[e].errors, "Pull failed")
              /\ eng'[e].pc = "rescan"
              /\ disk' = disk /\ fstate' = fstate
        /\ eng'[e].pullFailed /\ eng'[e].pc = "done" =>
              /\ \E i \in 1..Len(eng'[e].errors) : eng'[e].errors[i] = "Pull failed"
              /\ eng'[e].batch = BuildBatch(fstate, scan_vault(disk),
                                            get_local_changes(fstate, scan_vault(disk)))
                 \/ eng'[e].pushSent
              /\ eng'[e].batch # <<>> => eng'[e].pushSent
        /\ ~eng[e].pushFailed /\ eng'[e].pushFailed =>
              /\ eng'[e].errors = Append(eng[e].errors, "Push failed")
              /\ Unwrap(eng'[e].result).errors = eng'[e].errors
              /\ disk' = disk /\ fstate' = fstate]_vars

C11_Witness ==
    \E e \in Tasks :
        /\ eng[e].pullFailed /\ eng[e].pushFailed
        /\ eng[e].pc = "done"
        /\ Unwrap(eng[e].result).errors = <<"Pull failed", "Push failed">>

\* C12: an authentication error (HTTP 401) met by the pull or the push ends the
\* cycle with an error for the caller; no later phase of the cycle runs.
C12_AuthErrorAbortsCycle ==
    \A e \in Tasks : eng[e].authFailed => eng[e].pc = "failed"

StoreQuiescent == \A t \in Tasks : saver[t].pc = "idle"

\* C13: the path map is a bijection onto the stored vaults: no two paths map
\* to the same vault_id, and a path maps to an id exactly when the VaultState
\* of that id has that path.
C13_PathMapBijective ==
    /\ \A p, q \in DOMAIN store.path_to_vault_id :
          store.path_to_vault_id[p] = store.path_to_vault_id[q] => p = q
    /\ \A p \in VaultPaths, id \in VaultIds :
          (p \in DOMAIN store.path_to_vault_id /\ store.path_to_vault_id[p] = id)
          <=> (id \in DOMAIN store.vaults /\ store.vaults[id].vault_path = p)
    /\ \A id \in DOMAIN store.vaults : store.vaults[id].vault_id = id

\* C14: when the store call that returned last ended with a successful save
\* (and no call is inside save_sync), a store loaded from the state file has
\* the maps of the store in memory, and the dirty flag is clear.
C14_SavedStateIsOnDisk ==
    StoreQuiescent /\ lastSave = "saved" =>
        /\ load_sync(state_file, <<>>) = Maps(store)
        /\ ~store.dirty

\* C15: after a call whose save failed, the mutation is in memory and, as long
\* as the state file does not hold the maps in memory, the dirty flag is set.
C15_FailedSaveLeavesDirty ==
    StoreQuiescent /\ lastSave = "failed" /\ load_sync(state_file, <<>>) # Maps(store) =>
        store.dirty

\* The call of fn has returned
Returned(fn) == call.fn = fn /\ call.ret # None

\* The vault id a record of a version 1 file stands for
V1Id(old, k) ==
    IF old.vaults[k].vault_id = "" THEN MigratedId(k) ELSE old.vaults[k].vault_id

\* C16: loading a state file of version 0 or 1 keeps every file state of the
\* file: the state of relative_path in the group of a key is, after the
\* migration, the state of relative_path in the group of the vault id of that
\* key (the record's id, a synthesised id for a record without one, some id
\* for a group whose key has no record).
C16_MigrationKeepsFileStates ==
    Returned("load_sync") =>
        LET old == call.arg
            new == Unwrap(call.ret)
        IN  \A k \in DOMAIN old.file_states : \A rel \in DOMAIN old.file_states[k] :
                \E id \in DOMAIN new.file_states :
                    /\ k \in DOMAIN old.vaults => id = V1Id(old, k)
                    /\ rel \in DOMAIN new.file_states[id]
                    /\ new.file_states[id][rel] = old.file_states[k][rel]

\* C17: for an enabled vault, count_pending_changes returns the number of
\* changed files plus the number of deleted files of the engine's diff over
\* the same files and stored states.
C17_PendingCountIsDiffSize ==
    Returned("count_pending_changes") =>
        Unwrap(call.ret).pending = Cardinality(Unwrap(call.ret).diff.changed)
                                   + Cardinality(Unwrap(call.ret).diff.deleted)

\* C18: detect_changes returns as changed the files of the snapshot that the
\* previous map lacks or holds with another hash, as deleted the paths of the
\* previous map that the snapshot lacks; a file with the same hash in both is
\* in neither list, and no path is in both lists.
C18_DetectChanges ==
    Returned("detect_changes") =>
        LET current == call.arg.current
            previous == call.arg.previous
            r == Unwrap(call.ret)
        IN  /\ r.changed = {p \in DOMAIN current :
                                p \notin DOMAIN previous \/ previous[p] # current[p]}
            /\ r.deleted = {p \in DOMAIN previous : p \notin DOMAIN current}
            /\ \A p \in DOMAIN current \cap DOMAIN previous :
                    current[p] = previous[p] => p \notin r.changed \cup r.deleted
            /\ r.changed \cap r.deleted = {}

\* A call that returned a modified file and a deleted file
C18_Witness ==
    /\ Returned("detect_changes")
    /\ \E p \in Unwrap(call.ret).changed : p \in DOMAIN call.arg.previous
    /\ Unwrap(call.ret).deleted # {}

\* C19 as stated: encode_path(decode_path(x)) = x for every base64-valid x,
\* decode_path(encode_path(p)) = p, and decode_path(p) = p for every text that
\* is not encoded.
C19_RoundTripOfEveryBase64Text ==
    Returned("decode_path") =>
        LET x == call.arg
            r == Unwrap(call.ret)
        IN  /\ Base64Decode(x) # None => encode_path(r.decoded) = x
            /\ decode_path(r.encoded) = x
            /\ Base64Decode(x) = None => r.decoded = x

\* C19, amended: encode_path(decode_path(x)) = x for every x that is the
\* base64 text of a UTF-8 text; decode_path(encode_path(p)) = p for every
\* text p; decode_path(p) = p for every p that is not base64-valid.
C19_RoundTripOfEncodedText ==
    Returned("decode_path") =>
        LET x == call.arg
            r == Unwrap(call.ret)
        IN  /\ Base64Decode(x) # None /\ IsUtf8(Unwrap(Base64Decode(x))) =>
                    encode_path(r.decoded) = x
            /\ decode_path(r.encoded) = x
            /\ Base64Decode(x) = None => r.decoded = x

\* An encoded path was decoded to the path, and encodes back to itself
C19_Witness ==
    /\ Returned("decode_path")
    /\ Unwrap(call.ret).decoded \in {Str(p) : p \in Paths}
    /\ Unwrap(call.ret).decoded # call.arg
    /\ encode_path(Unwrap(call.ret).decoded) = call.arg

\* The remote_version stored for p
StoredVersion(p) == IF fstate[p] = None THEN None ELSE Unwrap(fstate[p]).remote_version

\* C20: in the batch a cycle is about to push, the entry of a deleted path is
\* a delete, the entry of any other path is a create when no remote_version is
\* stored for it and an update when one is; base_version is the stored
\* remote_version, null when there is none.
C20_BatchEntries ==
    \A e \in Tasks : eng[e].pc = "push" =>
        \A i \in 1..Len(eng[e].batch) :
            LET entry == eng[e].batch[i]
                p == PathOf(decode_path(entry.encrypted_path))
            IN  /\ entry.operation =
                        (IF p \in eng[e].deleted THEN "delete"
                         ELSE IF StoredVersion(p) = None THEN "create" ELSE "update")
                /\ entry.base_version = StoredVersion(p)

\* A batch with the delete of a file that is stored with a version
C20_Witness ==
    \E e \in Tasks :
        /\ eng[e].pc = "push"
        /\ \E i \in 1..Len(eng[e].batch) :
                /\ eng[e].batch[i].operation = "delete"
                /\ eng[e].batch[i].base_version # None

\* The step of task e handles the push result r for path p
HandlesResult(e) == eng[e].pc = "upload" /\ eng'[e] # eng[e]

HeadResult(e) == Head(eng[e].results)

ResultPath(e) == PathOf(decode_path(HeadResult(e).encrypted_path))

\* C21: for an accepted push result with an upload_url, the FileSyncState of
\* the path is written (hash of the file, new_version or 1) only after the
\* PUT succeeded and the confirm request was sent; when the PUT fails or the
\* file cannot be read the FileSyncState of the path is unchanged.
C21_StateWrittenAfterConfirm ==
    [][\A e \in Tasks :
        HandlesResult(e) /\ HeadResult(e).status = "accepted"
                         /\ HeadResult(e).upload_url # None =>
            /\ fstate'[ResultPath(e)] # fstate[ResultPath(e)] =>
                    /\ eng'[e].put = "ok"
                    /\ eng'[e].confirmSent
                    /\ fstate'[ResultPath(e)] =
                          Some(FileSyncState(compute_hash(disk[ResultPath(e)]),
                                             IF HeadResult(e).new_version = None THEN 1
                                             ELSE Unwrap(HeadResult(e).new_version)))
            /\ eng'[e].put # "ok" => fstate'[ResultPath(e)] = fstate[ResultPath(e)]
      ]_vars

\* C22: an accepted push result without upload_url removes the FileSyncState
\* of its path and adds one to files_deleted; a push result that is not
\* accepted changes neither a FileSyncState nor a counter.
C22_DeleteConfirmationRemovesState ==
    [][\A e \in Tasks : HandlesResult(e) =>
            /\ HeadResult(e).status = "accepted" /\ HeadResult(e).upload_url = None =>
                    /\ fstate' = [fstate EXCEPT ![ResultPath(e)] = None]
                    /\ eng'[e].files_deleted = eng[e].files_deleted + 1
                    /\ eng'[e].uploaded = eng[e].uploaded
            /\ HeadResult(e).status # "accepted" =>
                    /\ fstate' = fstate
                    /\ eng'[e].files_deleted = eng[e].files_deleted
                    /\ eng'[e].uploaded = eng[e].uploaded
      ]_vars

\* A cycle ended after the server accepted the delete of a file that had a
\* FileSyncState
C22_Witness ==
    \E e \in Tasks :
        /\ eng[e].pc = "done"
        /\ eng[e].deleted = {"a.md"}
        /\ eng[e].files_deleted = 1
        /\ fstate["a.md"] = None

\* C23: a version the server sends as a negative signed integer is rejected:
\* no stored remote_version is the wrap-around of a negative number (an
\* unsigned value beyond the largest signed one).
C23_NoWrappedVersion ==
    \A p \in Paths :
        fstate[p] # None /\ Unwrap(fstate[p]).remote_version # None =>
            Unwrap(Unwrap(fstate[p]).remote_version) < WordModulus \div 2

\* The fields of the state file f are the format version and the three maps
OnlyMaps(f) ==
    f = [version |-> f.version, vaults |-> f.vaults, file_states |-> f.file_states,
         path_to_vault_id |-> f.path_to_vault_id]

\* C24: the vault keys are never persisted: whatever the vault-key cache
\* holds, a state about to be written and the state file hold the format
\* version and the three maps and nothing else; after logout the vault-key
\* cache is empty.
C24_KeysStayInMemory ==
    /\ \A t \in Tasks : saver[t].snapshot # None => OnlyMaps(Unwrap(saver[t].snapshot))
    /\ state_file # None => OnlyMaps(Unwrap(state_file))
    /\ lastSave = "cleared" => store.vault_keys = EmptyMap

\* A state was saved while the cache held a key
C24_Witness ==
    /\ state_file # None
    /\ store.vault_keys # EmptyMap
    /\ lastSave = "saved"

\* Two queue items are for the same file
SameFile(i, j) == i.vault_path = j.vault_path /\ i.relative_path = j.relative_path

\* The last call was fn, on a single queue
QueueCalled(fn) == call.fn = fn /\ call.arg.which \in QueueNames

\* The queue of the last call, as the call found it and as it left it
Before == call.arg.before[call.arg.which]

After == queue[call.arg.which]

\* C25: each queue holds at most one item per (vault_path, relative_path);
\* an enqueue for a pair that is present replaces the entry: the new item is
\* in the queue, the former entry of the pair is not, the entries of the
\* other pairs stay.
C25_OneItemPerFile ==
    /\ \A w \in QueueNames : \A j, k \in 1..Len(queue[w]) :
            SameFile(queue[w][j], queue[w][k]) => j = k
    /\ QueueCalled("enqueue") =>
            /\ \E k \in 1..Len(After) : After[k] = call.arg.x
            /\ \A k \in 1..Len(After) :
                    SameFile(After[k], call.arg.x) => After[k] = call.arg.x
            /\ \A k \in 1..Len(Before) :
                    ~SameFile(Before[k], call.arg.x) =>
                        \E j \in 1..Len(After) : After[j] = Before[k]
            /\ \A j \in 1..Len(After) :
                    After[j] # call.arg.x => \E k \in 1..Len(Before) : Before[k] = After[j]

\* An item was enqueued for a file that had an entry, next to another file
C25_Witness ==
    /\ QueueCalled("enqueue")
    /\ \E k \in 1..Len(Before) : SameFile(Before[k], call.arg.x)
    /\ Len(Before) = 2

\* The item is ready at the time now, as the selection rule states it
Ready(item, now) ==
    /\ item.attempts < max_retries
    /\ \/ item.last_attempt_at = None
       \/ now >= Unwrap(item.last_attempt_at)
                    + retry_delay_ms * 2 ^ (IF item.attempts < 10 THEN item.attempts ELSE 10)

\* C26: next_upload and next_download return a ready item whose priority is
\* the highest among the ready items of the queue, and nothing only when no
\* item of the queue is ready.
C26_NextIsHighestReady ==
    QueueCalled("next") =>
        IF \E k \in 1..Len(Before) : Ready(Before[k], call.arg.now)
        THEN /\ call.ret # None
             /\ \E k \in 1..Len(Before) : Before[k] = Unwrap(call.ret)
             /\ Ready(Unwrap(call.ret), call.arg.now)
             /\ \A k \in 1..Len(Before) :
                    Ready(Before[k], call.arg.now) =>
                        Before[k].priority <= Unwrap(call.ret).priority
        ELSE call.ret = None

\* The item enqueued second, of high priority, is returned before the item
\* enqueued first, of normal priority and ready as well
C26_Witness ==
    /\ QueueCalled("next")
    /\ call.ret # None
    /\ \E k \in 1..Len(Before) :
            /\ Before[k].id < Unwrap(call.ret).id
            /\ Before[k].priority < Unwrap(call.ret).priority
            /\ Ready(Before[k], call.arg.now)

\* C27: fail adds one to the attempts of the item and stamps last_attempt
\* and the error; an item whose attempts reached max_retries is not returned
\* by next_upload/next_download, and its attempts are reset by retry_failed
\* only; retry_failed gives an exhausted item attempts 0 and no last_error,
\* which makes it ready again, and leaves every other item unchanged; complete
\* removes the item.
C27_FailRetryComplete ==
    /\ QueueCalled("fail") =>
            /\ Len(After) = Len(Before)
            /\ \A k \in 1..Len(Before) :
                    After[k] = IF Before[k].id = call.arg.x
                               THEN [Before[k] EXCEPT !.attempts = @ + 1,
                                                      !.last_attempt_at = Some(call.arg.now),
                                                      !.last_error = Some("error")]
                               ELSE Before[k]
    /\ QueueCalled("next") /\ call.ret # None => Unwrap(call.ret).attempts < max_retries
    /\ call.fn = "retry_failed" =>
            \A w \in QueueNames :
                /\ Len(queue[w]) = Len(call.arg.before[w])
                /\ \A k \in 1..Len(queue[w]) :
                        IF call.arg.before[w][k].attempts >= max_retries
                        THEN /\ queue[w][k].id = call.arg.before[w][k].id
                             /\ queue[w][k].attempts = 0
                             /\ queue[w][k].last_error = None
                             /\ Ready(queue[w][k], call.arg.now)
                        ELSE queue[w][k] = call.arg.before[w][k]
    /\ call.fn \in {"enqueue", "complete", "remove", "fail"} =>
            \A w \in QueueNames : \A j \in 1..Len(queue[w]) :
                \A k \in 1..Len(call.arg.before[w]) :
                    queue[w][j].id = call.arg.before[w][k].id =>
                        queue[w][j].attempts >= call.arg.before[w][k].attempts
    /\ QueueCalled("complete") =>
            /\ \A k \in 1..Len(After) : After[k].id # call.arg.x
            /\ After = SelectSeq(Before, LAMBDA i : i.id # call.arg.x)

\* retry_failed found an item that had used up its retries
C27_Witness ==
    /\ call.fn = "retry_failed"
    /\ \E k \in 1..Len(call.arg.before.upload) :
            /\ call.arg.before.upload[k].attempts = max_retries
            /\ queue.upload[k].attempts = 0

\* The pending changes of the file of change c in the list l
ForFile(l, c) ==
    SelectSeq(l, LAMBDA d : d.vault_path = c.vault_path /\ d.relative_path = c.relative_path)

\* The operations of a list of changes
RECURSIVE Operations(_)
Operations(l) == IF l = <<>> THEN <<>> ELSE <<Head(l).operation>> \o Operations(Tail(l))

\* C28: the debouncer holds at most one pending change per (vault_path,
\* relative_path); an add for a file with a pending change leaves one create
\* when update follows create, nothing when delete follows create, and one
\* change with the later operation for every other pair; an add for a file
\* with no pending change leaves that change pending; the changes of the
\* other files stay.
C28_AddCoalesces ==
    /\ \A j, k \in 1..Len(debouncer.pending) :
            SameFile(debouncer.pending[j], debouncer.pending[k]) => j = k
    /\ call.fn = "add" =>
            LET was == Operations(ForFile(call.arg.before, call.arg.x))
                is == Operations(ForFile(debouncer.pending, call.arg.x))
                op == call.arg.x.operation
            IN  /\ was = <<>> => is = <<op>>
                /\ was = <<"create">> /\ op = "update" => is = <<"create">>
                /\ was = <<"create">> /\ op = "delete" => is = <<>>
                /\ was # <<>> /\ ~(was = <<"create">> /\ op \in {"update", "delete"}) =>
                        is = <<op>>
                /\ \A k \in 1..Len(call.arg.before) :
                        ~SameFile(call.arg.before[k], call.arg.x) =>
                            \E j \in 1..Len(debouncer.pending) :
                                debouncer.pending[j] = call.arg.before[k]

\* An update was added for a file whose create was pending
C28_Witness ==
    /\ call.fn = "add"
    /\ call.arg.x.operation = "update"
    /\ \E k \in 1..Len(call.arg.before) :
            /\ SameFile(call.arg.before[k], call.arg.x)
            /\ call.arg.before[k].operation = "create"
    /\ Len(debouncer.pending) = 2

\* The add calls whose change is in the list l
RECURSIVE AddsIn(_)
AddsIn(l) == IF l = <<>> THEN {} ELSE {Head(l).n} \cup AddsIn(Tail(l))

\* The number of entries of the lists of ll that stem from the add call n
RECURSIVE Occurrences(_, _)
Occurrences(ll, n) ==
    IF ll = <<>> THEN 0
    ELSE Len(SelectSeq(Head(ll), LAMBDA c : c.n = n)) + Occurrences(Tail(ll), n)

\* C29: take returns the pending changes and leaves the list empty in one
\* step: under any interleaving of the add and take calls of two threads,
\* every added change that was not merged into another or cancelled is in
\* the list exactly one take returned, or is still pending; none is lost and
\* none is returned twice.
C29_TakeDrainsAtomically ==
    /\ call.fn = "take" => call.ret = Some(call.arg.before) /\ debouncer.pending = <<>>
    /\ \A n \in 1..debouncer.nAdds :
            Occurrences(debouncer.taken \o <<debouncer.pending>>, n)
                = IF n \in debouncer.absorbed THEN 0 ELSE 1

\* Two takes returned changes, and changes were added between and after them
C29_Witness ==
    /\ Len(debouncer.taken) = 2
    /\ debouncer.taken[1] # <<>>
    /\ debouncer.taken[2] # <<>>
    /\ debouncer.pending # <<>>

\* C30: for any original path p, with or without an extension, and any
\* device id of 8 characters or more, get_original_path of the generated
\* conflict path is p, and the generated path is a conflict file.
C30_ConflictPathRoundTrip ==
    Returned("generate_conflict_path") =>
        /\ Unwrap(call.ret).original = Some(call.arg.path)
        /\ Unwrap(call.ret).is_conflict

\* C31: resolve_conflict on an existing conflict file of the original o:
\* KeepLocal deletes the conflict file and leaves the rest; KeepRemote gives
\* o the content of the conflict file and deletes the conflict file; KeepBoth
\* moves the conflict file to a name that is not a conflict name and leaves
\* o; no file remains at the conflict path. With no file at the conflict
\* path the call fails with FileNotFound and the files are unchanged.
C31_ResolveConflict ==
    Returned("resolve_conflict") =>
        LET before == call.arg.files
            after == Unwrap(call.ret).files
            cp == call.arg.conflict_path
            o == call.arg.original
            keep == call.arg.keep
        IN  IF cp \notin DOMAIN before
            THEN Unwrap(call.ret).result = "FileNotFound" /\ after = before
            ELSE /\ Unwrap(call.ret).result = "Ok"
                 /\ cp \notin DOMAIN after
                 /\ keep = "KeepLocal" => after = Remove(before, cp)
                 /\ keep = "KeepRemote" => after = Insert(Remove(before, cp), o, before[cp])
                 /\ keep = "KeepBoth" =>
                        /\ Get(after, o) = Get(before, o)
                        /\ \E n \in DOMAIN after \ DOMAIN before :
                                /\ after[n] = before[cp]
                                /\ ~is_conflict_file(n)
                                /\ DOMAIN after = (DOMAIN before \ {cp}) \cup {n}

\* C32: sync_auto_reconnect_vault(path) of a logged-in user. With a manifest
\* of that user it returns true, the vault of the path is enabled under the
\* manifest's remote_vault_id, a second call leaves the store as it is, and
\* the manifest is rewritten exactly when the session's server_url differs
\* from the manifest's. With no manifest, or the manifest of another user, it
\* returns false and changes neither the store nor the manifest.
C32_AutoReconnect ==
    Returned("sync_auto_reconnect_vault") /\ call.arg.session # None =>
        LET a == call.arg
            r == Unwrap(call.ret)
            current == Unwrap(a.session)
        IN  IF a.manifest # None /\ Unwrap(a.manifest).user_id = current.user_id
            THEN /\ r.ret = "Ok(true)"
                 /\ get_vault_state(r.maps, "/p") # None
                 /\ Unwrap(get_vault_state(r.maps, "/p")).enabled
                 /\ Unwrap(get_vault_state(r.maps, "/p")).vault_id
                        = Unwrap(a.manifest).remote_vault_id
                 /\ sync_auto_reconnect_vault(r.maps, r.manifest, a.session, "/p", Now).maps
                        = r.maps
                 /\ r.manifest # a.manifest
                        <=> current.server_url # Unwrap(a.manifest).server_url
            ELSE r.ret = "Ok(false)" /\ r.maps = a.maps /\ r.manifest = a.manifest

\* The store's maps for the vault v1 at /p, from its VaultState and file states
VaultMaps(v, fs) ==
    [vaults |-> [id \in {"v1"} |-> VaultState("v1", "/p", v.enabled)],
     file_states |-> IF \A p \in Paths : fs[p] = None THEN EmptyMap
                     ELSE [id \in {"v1"} |->
                            [p \in {q \in Paths : fs[q] # None} |-> Unwrap(fs[p])]],
     path_to_vault_id |-> [path \in {"/p"} |-> "v1"]]

DisableReturns == cmd.pc = "unlink" /\ cmd'.pc = "idle"

\* The state sync_disable_vault promises at its return
Disabled(v, fs, mf, d) ==
    /\ ~v.enabled
    /\ v.status = "Disabled"
    /\ \A p \in Paths : fs[p] = None
    /\ mf = None
    /\ count_pending_changes(VaultMaps(v, fs), d, "/p") = 0

\* No cycle of the vault was in flight or started since the command began
RanAlone == ~cmd.overlapped /\ Quiescent /\ nStarted = cmd.started

C39_DisableOutlastsCycle ==
    /\ cmd.done /\ cmd.overlapped /\ Quiescent /\ nStarted = cmd.started =>
            /\ ~vault.enabled
            /\ vault.status = "Disabled"
            /\ \A p \in Paths : fstate[p] = None
    /\ vault.status = "Disabled" <=> ~vault.enabled

\* The content_hash the batch of task e declares for the path of its next
\* push result
DeclaredHash(e) ==
    LET i == CHOOSE k \in 1..Len(eng[e].batch) :
                eng[e].batch[k].encrypted_path = HeadResult(e).encrypted_path
    IN  eng[e].batch[i].content_hash

\* C38: the hash recorded in the FileSyncState of a path after its upload is
\* the content_hash that the push batch declared for the path, also when the
\* file is modified between the post-pull scan and the read before the upload.
C38_RecordedHashIsDeclaredHash ==
    [][\A e \in Tasks :
        HandlesResult(e) /\ eng'[e].put = "ok" =>
            /\ fstate'[ResultPath(e)] # None
            /\ Unwrap(fstate'[ResultPath(e)]).local_hash = Some(DeclaredHash(e))
      ]_vars

SaveReturns(t) == saver[t].pc = "write" /\ saver'[t].pc = "idle"

\* C35: when the mutations of two callers of the store have both returned
\* with successful saves (a save returns with success, the call that returned
\* before it saved with success, and no caller is left inside save_sync), the
\* state file holds the maps of the store in memory: a snapshot taken before
\* the other caller's mutation does not replace the file of the later one.
C35_LaterSnapshotOnDisk ==
    [][\A t \in Tasks :
        SaveReturns(t) /\ lastSave = "saved" /\ lastSave' = "saved"
                       /\ (\A o \in Tasks : saver'[o].pc = "idle") =>
            state_file' = Some(PersistedState(store'))
      ]_vars

\* C40 as stated: next_upload and next_download leave the queue as it is, so
\* that two successive calls on a queue with no fail or complete in between
\* return the same item.
C40_SuccessiveNextSameItem ==
    [][call.fn = "next" /\ call.ret # None /\ call'.fn = "next"
                        /\ call'.arg.which = call.arg.which =>
            /\ queue' = queue
            /\ call'.ret = call.ret
      ]_vars

\* C40, amended: next_upload and next_download leave the queue as it is: the
\* item returned stays queued with its attempts and last_attempt, so that a
\* second call at the same time, with no other call of the queue in between,
\* returns the same item.
C40_NextLeavesQueue ==
    QueueCalled("next") =>
        /\ queue = call.arg.before
        /\ call.ret # None => \E k \in 1..Len(After) : After[k] = Unwrap(call.ret)
        /\ NextReady(After, call.arg.now) = call.ret

\* next returned an item that had failed once and was ready again, and left
\* it queued beside another item
C40_Witness ==
    /\ QueueCalled("next")
    /\ call.ret # None
    /\ Unwrap(call.ret).attempts = 1
    /\ Len(After) = 2
    /\ \E k \in 1..Len(After) : After[k] = Unwrap(call.ret)

\* The paths of the entries of a push batch
BatchPaths(batch) == {PathOf(decode_path(batch[i].encrypted_path)) : i \in 1..Len(batch)}

\* The change at the head of the page is a create or update of a file that
\* exists locally with another content, and the pull is additive-only
KeepsLocal(e) ==
    /\ Applies(e)
    /\ eng[e].additive
    /\ CreateOrUpdate(HeadChange(e))
    /\ disk[HeadPath(e)] # Absent
    /\ compute_hash(disk[HeadPath(e)]) # HeadChange(e).content_hash

\* C36: when an additive-only pull skips a remote create/update because the
\* file exists locally with another content, the FileSyncState written has
\* local_hash and remote_hash equal to the hash of the local file and
\* remote_version equal to the version of the change, the local file is
\* unchanged, and the path is not in the push batch of that cycle.
C36_AdditiveSkipRecordsLocal ==
    [][\A e \in Tasks :
        /\ KeepsLocal(e) =>
            /\ fstate'[HeadPath(e)] =
                    Some([local_hash |-> Some(compute_hash(disk[HeadPath(e)])),
                          remote_hash |-> Some(compute_hash(disk[HeadPath(e)])),
                          remote_version |-> Some(HeadChange(e).version)])
            /\ disk'[HeadPath(e)] = disk[HeadPath(e)]
        /\ BatchPaths(eng'[e].batch) \cap eng'[e].kept = {}
      ]_vars

\* C37: with no filesystem change outside the engine during the cycle, a
\* path whose remote change the pull applied (the file was downloaded and
\* written, or deleted) is not in the push batch of the same cycle.
C37_AppliedPathNotPushed ==
    \A e \in Tasks : BatchPaths(eng[e].batch) \cap eng[e].applied = {}

====
